---- MODULE Spec2Model ----
(***************************************************************************)
(* twoDB: a paged text-file store (TextFileHandler), a B+Tree index kept   *)
(* in Index pages (BPlusTree) and the Database facade on top of both.      *)
(*                                                                         *)
(* Go strings are TLA+ strings; the backing file is one string holding the *)
(* exact text the handler writes.  Indexes into strings are 0-based as in  *)
(* Go, -1 meaning "no occurrence".                                         *)
(***************************************************************************)
EXTENDS Integers, Sequences, FiniteSets, TLC

VARIABLES
    File,              \* text of the backing file (TextFileHandler.FilePath)
    PageCount,         \* TextFileHandler.PageCount
    DeallocatedPages,  \* TextFileHandler.DeallocatedPages
    Closed,            \* TRUE once TextFileHandler.File has been closed
    RootPageID,        \* BPlusTree.RootPageID
    mapSeed,           \* start offset of Go's map iteration
    last,              \* the last call made and what it returned
    held,              \* PageIDs handed out by AllocatePage to the caller
    ins,               \* facade history: id -> its last successful Insert
    atClose,           \* facade history: id -> what Get returned when Close was called
    idx,               \* index history: key -> pointer of its last Insert
    dup,               \* index history: TRUE once a live key was inserted again
    scen,              \* progress through Scenario A (inserts of a,b,c,d,e)
    used,              \* how many of the caller's keys have been passed to a call
    nops,              \* number of calls made so far
    cfg,               \* the caller: its keys in order of first use, its data, its calls
    gpc,               \* goroutine -> where it is in the call it runs
    gcall,             \* goroutine -> the call it runs
    gloc,              \* goroutine -> the local variables of its call
    DbMutex,           \* Database.Mutex
    FhMutex,           \* TextFileHandler.Mutex
    Offset             \* read position of TextFileHandler.File between Seek and Read

\* the goroutines' part of the state: callers that take turns leave it alone
concVars == <<gpc, gcall, gloc, DbMutex, FhMutex, Offset>>

\* a Page in the hands of a caller of its record methods: the page, the
\* Fields passed to its AddRecord calls so far and what the last call returned
VARIABLES page, added, got
pageVars == <<page, added, got>>

vars == <<File, PageCount, DeallocatedPages, Closed, RootPageID, mapSeed,
          last, held, ins, atClose, idx, dup, scen, used, nops, cfg, concVars, pageVars>>

-----------------------------------------------------------------------------
(* Bounds                                                                  *)

MaxSeed == 1        \* map iteration offsets 0..MaxSeed
MaxPages == 10      \* store level: AllocatePage is called while PageCount < MaxPages
MaxStoreOps == 2    \* store level: number of WritePage and ReadPage calls
MaxIndexOps == 5    \* index level: number of calls
MaxOps == 4         \* facade level: number of calls
MaxAllOps == 3      \* facade and index side by side: number of calls
MaxLifeOps == 3     \* store level with Close and reopening: number of calls
MaxConcOps == 3     \* goroutines on one Database: number of calls
MaxAllocCalls == 3  \* goroutines on one TextFileHandler: number of AllocatePage calls
MaxFacadeOps == 3   \* facade level, short sessions: number of calls
MaxWriteOps == 3    \* store level, AllocatePage and WritePage only: number of WritePage calls
MaxRecords == 3     \* record methods of one Page: number of AddRecord calls

-----------------------------------------------------------------------------
(* Go string functions                                                     *)

Min(S) == CHOOSE x \in S : \A y \in S : x <= y
Max(S) == CHOOSE x \in S : \A y \in S : x >= y

\* s[a:b]
Slice(s, a, b) == SubSeq(s, a + 1, b)
\* s[a:]
SliceFrom(s, a) == SubSeq(s, a + 1, Len(s))
\* s[i] as a one-character string
CharAt(s, i) == SubSeq(s, i + 1, i + 1)

\* strings.Index
Index(s, sub) ==
    LET hits == {i \in 0..(Len(s) - Len(sub)) : Slice(s, i, i + Len(sub)) = sub}
    IN  IF hits = {} THEN -1 ELSE Min(hits)

\* strings.LastIndex
LastIndex(s, sub) ==
    LET hits == {i \in 0..(Len(s) - Len(sub)) : Slice(s, i, i + Len(sub)) = sub}
    IN  IF hits = {} THEN -1 ELSE Max(hits)

\* strings.Contains
Contains(s, sub) == Index(s, sub) # -1

\* strings.HasPrefix
HasPrefix(s, prefix) ==
    Len(s) >= Len(prefix) /\ Slice(s, 0, Len(prefix)) = prefix

\* strings.Replace(s, old, new, 1)
ReplaceFirst(s, old, new) ==
    LET i == Index(s, old)
    IN  IF i = -1 THEN s
        ELSE Slice(s, 0, i) \o new \o SliceFrom(s, i + Len(old))

\* strings.Split(s, sep), sep non-empty
RECURSIVE Split(_, _)
Split(s, sep) ==
    LET i == Index(s, sep)
    IN  IF i = -1 THEN <<s>>
        ELSE <<Slice(s, 0, i)>> \o Split(SliceFrom(s, i + Len(sep)), sep)

\* strings.SplitN(s, sep, 2)
SplitN2(s, sep) ==
    LET i == Index(s, sep)
    IN  IF i = -1 THEN <<s>>
        ELSE <<Slice(s, 0, i), SliceFrom(s, i + Len(sep))>>

\* strings.Join
RECURSIVE Join(_, _)
Join(elems, sep) ==
    IF Len(elems) = 0 THEN ""
    ELSE IF Len(elems) = 1 THEN elems[1]
    ELSE elems[1] \o sep \o Join(Tail(elems), sep)

IsSpace(c) == c \in {" ", "\t", "\n", "\r"}

\* strings.TrimSpace
RECURSIVE TrimLeft(_)
TrimLeft(s) ==
    IF Len(s) > 0 /\ IsSpace(CharAt(s, 0)) THEN TrimLeft(SliceFrom(s, 1)) ELSE s
RECURSIVE TrimRight(_)
TrimRight(s) ==
    IF Len(s) > 0 /\ IsSpace(CharAt(s, Len(s) - 1))
    THEN TrimRight(Slice(s, 0, Len(s) - 1)) ELSE s
TrimSpace(s) == TrimRight(TrimLeft(s))

Digits == "0123456789"
IsDigit(c) == Len(c) = 1 /\ Index(Digits, c) # -1

\* the %d verb of fmt.Sprintf on an unsigned value
RECURSIVE FormatUint(_)
FormatUint(n) ==
    IF n < 10 THEN CharAt(Digits, n)
    ELSE FormatUint(n \div 10) \o CharAt(Digits, n % 10)

\* value of a string of decimal digits
RECURSIVE DigitsValue(_)
DigitsValue(s) ==
    IF Len(s) = 0 THEN 0
    ELSE 10 * DigitsValue(Slice(s, 0, Len(s) - 1)) + Index(Digits, CharAt(s, Len(s) - 1))

\* length of the longest prefix of s made of digits
RECURSIVE DigitPrefixLen(_)
DigitPrefixLen(s) ==
    IF Len(s) > 0 /\ IsDigit(CharAt(s, 0)) THEN 1 + DigitPrefixLen(SliceFrom(s, 1)) ELSE 0

\* fmt.Sscanf(s, "%d", &v) on an unsigned v holding old: leading space is
\* skipped, the digits that follow are read, and v keeps old when there are none
SscanfUint(s, old) ==
    LET t == TrimLeft(s)
        n == DigitPrefixLen(t)
    IN  IF n = 0 THEN old ELSE DigitsValue(Slice(t, 0, n))

\* strconv.ParseUint(s, 10, 32) with the error dropped: 0 on a syntax error
\* (page ids stay far below 2^32, so the range error does not arise)
ParseUint(s) ==
    IF Len(s) = 0 \/ DigitPrefixLen(s) # Len(s) THEN 0 ELSE DigitsValue(s)

\* strconv.ParseBool with the error dropped
ParseBool(s) == s \in {"1", "t", "T", "TRUE", "true", "True"}

\* strconv.FormatBool
FormatBool(b) == IF b THEN "true" ELSE "false"

\* byte order of the characters used in keys
CharOrder == " ,0123456789:ABCDEFGHIJKLMNOPQRSTUVWXYZabcdefghijklmnopqrstuvwxyz|"

\* a < b for Go strings (bytewise)
RECURSIVE StrLess(_, _)
StrLess(a, b) ==
    IF Len(b) = 0 THEN FALSE
    ELSE IF Len(a) = 0 THEN TRUE
    ELSE IF CharAt(a, 0) = CharAt(b, 0) THEN StrLess(SliceFrom(a, 1), SliceFrom(b, 1))
    ELSE Index(CharOrder, CharAt(a, 0)) < Index(CharOrder, CharAt(b, 0))

\* sort.SearchStrings(a, x) on a sorted a: the first index i with a[i] >= x
SearchStrings(a, x) ==
    LET ge == {i \in 0..(Len(a) - 1) : ~StrLess(a[i + 1], x)}
    IN  IF ge = {} THEN Len(a) ELSE Min(ge)

\* the lines bufio.Scanner yields for a text: split at "\n", a trailing "\r"
\* dropped, no empty line after the final "\n"
DropCR(s) ==
    IF Len(s) > 0 /\ CharAt(s, Len(s) - 1) = "\r" THEN Slice(s, 0, Len(s) - 1) ELSE s
\* the lines of s from position start (1-based) on, nls being the positions
\* of the "\n" characters that follow
RECURSIVE LinesFrom(_, _, _)
LinesFrom(s, start, nls) ==
    IF nls = {}
    THEN IF start > Len(s) THEN <<>> ELSE <<DropCR(SubSeq(s, start, Len(s)))>>
    ELSE LET m == Min(nls)
         IN  <<DropCR(SubSeq(s, start, m - 1))>> \o LinesFrom(s, m + 1, nls \ {m})
ScanLines(s) == LinesFrom(s, 1, {i \in 1..Len(s) : SubSeq(s, i, i) = "\n"})

-----------------------------------------------------------------------------
(* Go maps of string to string: a sequence of <<key, value>> pairs with    *)
(* distinct keys, in slot order.                                           *)

MapKeys(m) == {m[i][1] : i \in 1..Len(m)}
MapHas(m, k) == k \in MapKeys(m)
MapGet(m, k) ==
    IF MapHas(m, k) THEN m[CHOOSE i \in 1..Len(m) : m[i][1] = k][2] ELSE ""
MapSet(m, k, v) ==
    IF MapHas(m, k)
    THEN [i \in 1..Len(m) |-> IF m[i][1] = k THEN <<k, v>> ELSE m[i]]
    ELSE Append(m, <<k, v>>)
MapDelete(m, k) == SelectSeq(m, LAMBDA e : e[1] # k)
\* the mapping itself, slot order forgotten
MapPairs(m) == {m[i] : i \in 1..Len(m)}

\* for Key, Value := range m: Go starts a small map's iteration at a random
\* slot and wraps around
MapRange(m, seed) ==
    IF Len(m) = 0 THEN m
    ELSE LET r == seed % Len(m)
         IN  SubSeq(m, r + 1, Len(m)) \o SubSeq(m, 1, r)

-----------------------------------------------------------------------------
(* TextFileHandler: the paged store                                        *)

HeaderSection == "# DATABASE HEADER"
PageSection == "# PAGE"
DefaultPageSize == 4096

NoPage == [Header |-> [PageLSN |-> 0, PageID |-> 0, PageType |-> "<nil>"], Data |-> <<>>]

\* the text NewTextFileHandler writes into a file it creates
InitialContent ==
    HeaderSection \o "\nPAGESIZE=" \o FormatUint(DefaultPageSize)
        \o "\nENCODING=UTF-8\nVERSION=1.0\nPAGES=0\n\n"

\* the DEALLOCATED_PAGES case of LoadMetadata: every comma-separated item is
\* scanned into a fresh PageID (0 when it holds no number) and appended
RECURSIVE ScanDeallocated(_)
ScanDeallocated(items) ==
    IF Len(items) = 0 THEN <<>>
    ELSE <<SscanfUint(items[1], 0)>> \o ScanDeallocated(Tail(items))

\* the loop of LoadMetadata from line i on
RECURSIVE LoadMetadataLoop(_, _, _, _, _)
LoadMetadataLoop(lines, i, InHeader, count, dealloc) ==
    IF i > Len(lines) THEN [PageCount |-> count, DeallocatedPages |-> dealloc]
    ELSE LET CurrentLine == lines[i]
             Metadata == SplitN2(CurrentLine, "=")
             Key == TrimSpace(Metadata[1])
             Value == TrimSpace(Metadata[2])
         IN  IF CurrentLine = HeaderSection
             THEN LoadMetadataLoop(lines, i + 1, TRUE, count, dealloc)
             ELSE IF HasPrefix(CurrentLine, PageSection)
             THEN [PageCount |-> count, DeallocatedPages |-> dealloc]
             ELSE IF ~(InHeader /\ CurrentLine # "") \/ Len(Metadata) # 2
             THEN LoadMetadataLoop(lines, i + 1, InHeader, count, dealloc)
             ELSE IF Key = "PAGES"
             THEN LoadMetadataLoop(lines, i + 1, InHeader, SscanfUint(Value, count), dealloc)
             ELSE IF Key = "DEALLOCATED_PAGES"
             THEN LoadMetadataLoop(lines, i + 1, InHeader, count,
                                   dealloc \o ScanDeallocated(Split(Value, ",")))
             ELSE LoadMetadataLoop(lines, i + 1, InHeader, count, dealloc)

\* LoadMetadata on a handler that NewTextFileHandler has just built
\* (PageCount 0, no deallocated pages)
LoadMetadata(content) == LoadMetadataLoop(ScanLines(content), 1, FALSE, 0, <<>>)

\* the loop of ReadPage from line i on; Page.Header.PageType starts empty
RECURSIVE ReadPageLoop(_, _, _, _, _, _)
ReadPageLoop(lines, i, PageIDMarker, InTargetPage, PageFound, Page) ==
    IF i > Len(lines) THEN [PageFound |-> PageFound, Page |-> Page]
    ELSE LET CurrentLine == lines[i]
             AtSection == HasPrefix(CurrentLine, PageSection)
             Marked == Contains(CurrentLine, PageIDMarker)
             InTarget == (IF AtSection THEN FALSE ELSE InTargetPage) \/ Marked
             Found == PageFound \/ Marked
             Parts == SplitN2(CurrentLine, ": ")
             Key == TrimSpace(Parts[1])
             Value == TrimSpace(Parts[2])
             Parsed ==
                 IF ~(InTarget /\ CurrentLine # "") \/ Len(Parts) # 2 THEN Page
                 ELSE IF Key = "LSN"
                 THEN [Page EXCEPT !.Header.PageLSN = SscanfUint(Value, @)]
                 ELSE IF Key = "Type"
                 THEN [Page EXCEPT !.Header.PageType = Value]
                 ELSE IF Key = "PageID" THEN Page
                 ELSE [Page EXCEPT !.Data = MapSet(@, Key, Value)]
         IN  IF AtSection /\ InTargetPage
             THEN [PageFound |-> PageFound, Page |-> Page]
             ELSE ReadPageLoop(lines, i + 1, PageIDMarker, InTarget, Found, Parsed)

\* the handler's fields as one value, so that calls can be chained
Handler(content, count, dealloc, closed) ==
    [File |-> content, PageCount |-> count, DeallocatedPages |-> dealloc, Closed |-> closed]

\* the value a call returns is computed once and named in what follows it:
\* With([r \in {v} |-> e]) is e with r standing for v
With(f) == f[CHOOSE r \in DOMAIN f : TRUE]

\* ReadPage; a closed file yields no line
ReadPage(h, PageID) ==
    IF PageID = 0 \/ PageID > h.PageCount THEN [err |-> "InvalidPageID", Page |-> NoPage]
    ELSE With([r \in {ReadPageLoop(IF h.Closed THEN <<>> ELSE ScanLines(h.File), 1,
                                    "PageID: " \o FormatUint(PageID), FALSE, FALSE,
                                    [Header |-> [PageLSN |-> 0, PageID |-> PageID,
                                                 PageType |-> ""],
                                     Data |-> <<>>])} |->
             IF ~r.PageFound THEN [err |-> "PageNotFound", Page |-> NoPage]
             ELSE [err |-> "nil", Page |-> r.Page]])

\* the payload lines of WritePage, in the order the map is ranged over
RECURSIVE PayloadLines(_)
PayloadLines(entries) ==
    IF Len(entries) = 0 THEN ""
    ELSE entries[1][1] \o ": " \o entries[1][2] \o "\n" \o PayloadLines(Tail(entries))

\* the section text WritePage builds for a page
NewPageContent(Page, seed) ==
    PageSection \o "\n"
        \o "PageID: " \o FormatUint(Page.Header.PageID) \o "\n"
        \o "LSN: " \o FormatUint(Page.Header.PageLSN) \o "\n"
        \o "Type: " \o Page.Header.PageType \o "\n"
        \o PayloadLines(MapRange(Page.Data, seed))

\* WritePage that takes every page for a new one and appends its section
PlacePage_AlwaysAppends(FileContent, Page, seed) ==
    FileContent \o "\n" \o NewPageContent(Page, seed)

\* the new file text of WritePage before the page count is patched;
\* "<panic>" when a slice bound is out of range
PlacePage(FileContent, Page, seed) ==
    With([New \in {NewPageContent(Page, seed)} |->
    With([Found \in {Index(FileContent, "PageID: " \o FormatUint(Page.Header.PageID))} |->
        IF Found = -1 THEN FileContent \o "\n" \o New
        ELSE With([StartIndex \in {LastIndex(Slice(FileContent, 0, Found), PageSection)} |->
            IF StartIndex = -1 THEN "<panic>"
            ELSE With([EndIndex \in {Index(SliceFrom(FileContent,
                                                      StartIndex + Len(PageSection)),
                                            PageSection)} |->
                IF EndIndex # -1
                THEN Slice(FileContent, 0, StartIndex) \o New
                         \o SliceFrom(FileContent, EndIndex + StartIndex + Len(PageSection))
                ELSE Slice(FileContent, 0, StartIndex) \o New])])])])

\* WritePage: the error returned and the handler afterwards. The page count
\* is raised before the file is truncated, which fails on a closed file.
WritePage(h, Page, seed) ==
    LET Raise == Page.Header.PageID > h.PageCount
        NewCount == IF Raise THEN Page.Header.PageID ELSE h.PageCount
    IN  With([Placed \in {PlacePage(h.File, Page, seed)} |->
            IF Placed = "<panic>" THEN [err |-> "panic", h |-> h]
            ELSE IF h.Closed
            THEN [err |-> "TruncateFailed", h |-> [h EXCEPT !.PageCount = NewCount]]
            ELSE [err |-> "nil",
                  h |-> [h EXCEPT !.PageCount = NewCount,
                                  !.File = IF Raise
                                           THEN ReplaceFirst(Placed,
                                                    "PAGES=" \o FormatUint(h.PageCount),
                                                    "PAGES=" \o FormatUint(NewCount))
                                           ELSE Placed]]])

\* AllocatePage: the page handed out and the handler afterwards
AllocatePage(h) ==
    LET Reuse == Len(h.DeallocatedPages) > 0
        PageID == IF Reuse THEN h.DeallocatedPages[1] ELSE h.PageCount + 1
    IN  [Page |-> [Header |-> [PageLSN |-> 0, PageID |-> PageID, PageType |-> ""],
                   Data |-> <<>>],
         h |-> IF Reuse THEN [h EXCEPT !.DeallocatedPages = Tail(@)]
               ELSE [h EXCEPT !.PageCount = @ + 1]]

\* TextFileHandler.Close: the file is closed; closing it again is an error
Close(h) ==
    [err |-> IF h.Closed THEN "AlreadyClosed" ELSE "nil", h |-> [h EXCEPT !.Closed = TRUE]]

\* NewTextFileHandler on a path whose file exists with this text
NewTextFileHandler(content) ==
    With([m \in {LoadMetadata(content)} |->
        Handler(content, m.PageCount, m.DeallocatedPages, FALSE)])

-----------------------------------------------------------------------------
(* Records of a Data page                                                  *)

\* Page.AddRecord
AddRecord(Page, Fields) ==
    IF Page.Header.PageType # "Data"
    THEN [err |-> "NotADataPage", Page |-> Page, EntryIndex |-> 0]
    ELSE With([EntryIndex \in {(IF MapHas(Page.Data, "EntryIndex")
                                THEN SscanfUint(MapGet(Page.Data, "EntryIndex"), 0)
                                ELSE 0) + 1} |->
             [err |-> "nil",
              Page |-> [Page EXCEPT !.Data =
                           MapSet(MapSet(@, "EntryIndex", FormatUint(EntryIndex)),
                                  "Entry-" \o FormatUint(EntryIndex), Join(Fields, "|"))],
              EntryIndex |-> EntryIndex]])

\* Page.GetRecord; Fields is <<>> when no record is returned
GetRecord(Page, EntryIndex) ==
    LET EntryKey == "Entry-" \o FormatUint(EntryIndex)
    IN  IF Page.Header.PageType # "Data" THEN [err |-> "NotADataPage", Fields |-> <<>>]
        ELSE IF ~MapHas(Page.Data, EntryKey) THEN [err |-> "RecordNotFound", Fields |-> <<>>]
        ELSE [err |-> "nil", Fields |-> Split(MapGet(Page.Data, EntryKey), "|")]

\* Page.DeleteRecord
DeleteRecord(Page, EntryIndex) ==
    LET EntryKey == "Entry-" \o FormatUint(EntryIndex)
    IN  IF Page.Header.PageType # "Data" THEN [err |-> "NotADataPage", Page |-> Page]
        ELSE IF ~MapHas(Page.Data, EntryKey) THEN [err |-> "RecordNotFound", Page |-> Page]
        ELSE [err |-> "nil", Page |-> [Page EXCEPT !.Data = MapDelete(@, EntryKey)]]

-----------------------------------------------------------------------------
(* Records of a Data page, storage/Page.go: the entry of local index n is  *)
(* kept under the payload key "EntryIndex<n>"                              *)

\* what a record method of a Page returned
Result(op, err, Records) == [op |-> op, err |-> err, Records |-> Records]
NoResult == Result("", "nil", <<>>)

\* the payload's "EntryIndex" as the record methods read it
PageEntryIndex(Page) ==
    IF MapHas(Page.Data, "EntryIndex")
    THEN SscanfUint(MapGet(Page.Data, "EntryIndex"), 0)
    ELSE 0

\* Page.AddRecord of storage/Page.go
PageAddRecord(Page, Fields) ==
    IF Page.Header.PageType # "Data"
    THEN [err |-> "NotADataPage", Page |-> Page]
    ELSE With([EntryIndex \in {PageEntryIndex(Page) + 1} |->
             [err |-> "nil",
              Page |-> [Page EXCEPT !.Data =
                           MapSet(MapSet(@, "EntryIndex", FormatUint(EntryIndex)),
                                  "EntryIndex" \o FormatUint(EntryIndex),
                                  Join(Fields, "|"))]]])

\* Page.GetRecord of storage/Page.go; Records is <<>> when the call fails
PageGetRecord(Page, EntryIndex) ==
    LET EntryKey == "EntryIndex" \o FormatUint(EntryIndex)
    IN  IF Page.Header.PageType # "Data" THEN Result("GetRecord", "NotADataPage", <<>>)
        ELSE IF ~MapHas(Page.Data, EntryKey) THEN Result("GetRecord", "RecordNotFound", <<>>)
        ELSE Result("GetRecord", "nil",
                    << [EntryIndex |-> EntryIndex,
                        Fields |-> Split(MapGet(Page.Data, EntryKey), "|")] >>)

\* the loop of Page.GetAllRecords from index n on: for ; Index < EntryIndex; Index++
RECURSIVE RecordsFrom(_, _, _)
RecordsFrom(Page, n, EntryIndex) ==
    IF ~(n < EntryIndex) THEN <<>>
    ELSE LET EntryKey == "EntryIndex" \o FormatUint(n)
         IN  (IF MapHas(Page.Data, EntryKey)
              THEN << [EntryIndex |-> n,
                       Fields |-> Split(MapGet(Page.Data, EntryKey), "|")] >>
              ELSE <<>>)
             \o RecordsFrom(Page, n + 1, EntryIndex)

\* Page.GetAllRecords of storage/Page.go
PageGetAllRecords(Page) ==
    IF Page.Header.PageType # "Data" THEN Result("GetAllRecords", "NotADataPage", <<>>)
    ELSE Result("GetAllRecords", "nil", RecordsFrom(Page, 1, PageEntryIndex(Page)))

-----------------------------------------------------------------------------
(* BPlusTree                                                               *)

BTreeOrder == 4

NoNode == [Page |-> NoPage, IsLeaf |-> FALSE, Keys |-> <<>>, Children |-> <<>>,
           Pointers |-> <<>>, NextLeaf |-> 0]

\* BPlusTree.readNode: Children and NextLeaf are never decoded
readNode(h, pageID) ==
    With([r \in {ReadPage(h, pageID)} |->
        IF r.err # "nil" THEN [err |-> r.err, Node |-> NoNode]
        ELSE LET keys == MapGet(r.Page.Data, "Keys")
                 pointers == MapGet(r.Page.Data, "Pointers")
             IN  [err |-> "nil",
                  Node |-> [Page |-> r.Page,
                            IsLeaf |-> ParseBool(MapGet(r.Page.Data, "IsLeaf")),
                            Keys |-> IF keys # "" THEN Split(keys, ",") ELSE <<>>,
                            Children |-> <<>>,
                            Pointers |-> IF pointers # "" THEN Split(pointers, ",") ELSE <<>>,
                            NextLeaf |-> 0]]])

\* BPlusTree.writeNode
writeNode(h, node, seed) ==
    WritePage(h, [node.Page EXCEPT !.Data =
                     MapSet(MapSet(MapSet(@, "IsLeaf", FormatBool(node.IsLeaf)),
                                   "Keys", Join(node.Keys, ",")),
                            "Pointers", Join(node.Pointers, ","))],
              seed)

\* NewBPlusTree: the root is page 1 when ReadPage(1) succeeds, a newly
\* allocated and written empty leaf otherwise
NewBPlusTree(h, seed) ==
    With([r \in {ReadPage(h, 1)} |->
        IF r.err = "nil" THEN [err |-> "nil", h |-> h, RootPageID |-> r.Page.Header.PageID]
        ELSE With([a \in {AllocatePage(h)} |->
             With([w \in {WritePage(a.h, [a.Page EXCEPT !.Header.PageType = "Index",
                                                !.Data = << <<"IsLeaf", "true">>,
                                                            <<"Keys", "">>,
                                                            <<"Pointers", "">> >>],
                            seed)} |->
                 IF w.err # "nil" THEN [err |-> w.err, h |-> w.h, RootPageID |-> 0]
                 ELSE [err |-> "nil", h |-> w.h, RootPageID |-> a.Page.Header.PageID]])])])

\* s with x put in front of position i (0-based)
InsertAt(s, i, x) == SubSeq(s, 1, i) \o <<x>> \o SubSeq(s, i + 1, Len(s))
\* s without the element at position i (0-based)
RemoveAt(s, i) == SubSeq(s, 1, i) \o SubSeq(s, i + 2, Len(s))

\* BPlusTree.Insert without the test that the root has room: the key is put
\* into the root leaf however many keys it holds
BPlusTreeInsert_NoRoomTest(h, root, seed, key, pageID, entryIndex) ==
    With([n \in {readNode(h, root)} |->
        IF n.err # "nil" THEN [err |-> n.err, h |-> h]
        ELSE IF n.Node.IsLeaf
        THEN With([insertIndex \in {SearchStrings(n.Node.Keys, key)} |->
                 IF insertIndex > Len(n.Node.Pointers) THEN [err |-> "panic", h |-> h]
                 ELSE writeNode(h, [n.Node EXCEPT
                                       !.Keys = InsertAt(@, insertIndex, key),
                                       !.Pointers = InsertAt(@, insertIndex,
                                           FormatUint(pageID) \o ":" \o FormatUint(entryIndex))],
                                seed)])
        ELSE [err |-> "nil", h |-> h]])

\* BPlusTree.Insert that puts the pointer at the end of Pointers instead of
\* the position of the key
BPlusTreeInsert_PointerLast(h, root, seed, key, pageID, entryIndex) ==
    With([n \in {readNode(h, root)} |->
        IF n.err # "nil" THEN [err |-> n.err, h |-> h]
        ELSE IF n.Node.IsLeaf /\ Len(n.Node.Keys) < BTreeOrder - 1
        THEN With([insertIndex \in {SearchStrings(n.Node.Keys, key)} |->
                 IF insertIndex > Len(n.Node.Pointers) THEN [err |-> "panic", h |-> h]
                 ELSE writeNode(h, [n.Node EXCEPT
                                       !.Keys = InsertAt(@, insertIndex, key),
                                       !.Pointers = InsertAt(@, Len(@),
                                           FormatUint(pageID) \o ":" \o FormatUint(entryIndex))],
                                seed)])
        ELSE [err |-> "nil", h |-> h]])

\* BPlusTree.Insert: the simplified insert into a root leaf that is not full
BPlusTreeInsert(h, root, seed, key, pageID, entryIndex) ==
    With([n \in {readNode(h, root)} |->
        IF n.err # "nil" THEN [err |-> n.err, h |-> h]
        ELSE IF n.Node.IsLeaf /\ Len(n.Node.Keys) < BTreeOrder - 1
        THEN With([insertIndex \in {SearchStrings(n.Node.Keys, key)} |->
                 IF insertIndex > Len(n.Node.Pointers) THEN [err |-> "panic", h |-> h]
                 ELSE writeNode(h, [n.Node EXCEPT
                                       !.Keys = InsertAt(@, insertIndex, key),
                                       !.Pointers = InsertAt(@, insertIndex,
                                           FormatUint(pageID) \o ":" \o FormatUint(entryIndex))],
                                seed)])
        ELSE [err |-> "nil", h |-> h]])

\* index (0-based) of the first element of keys equal to key, -1 if none
FirstIndexOf(keys, key) ==
    LET hits == {i \in 0..(Len(keys) - 1) : keys[i + 1] = key}
    IN  IF hits = {} THEN -1 ELSE Min(hits)

\* BPlusTree.Find: (0, 0, nil) is the not-found result
BPlusTreeFind(h, root, key) ==
    With([n \in {readNode(h, root)} |->
        IF n.err # "nil" THEN [pageID |-> 0, entryIndex |-> 0, err |-> n.err]
        ELSE IF ~n.Node.IsLeaf THEN [pageID |-> 0, entryIndex |-> 0, err |-> "NonLeafRoot"]
        ELSE With([i \in {FirstIndexOf(n.Node.Keys, key)} |->
            IF i = -1 THEN [pageID |-> 0, entryIndex |-> 0, err |-> "nil"]
            ELSE IF i >= Len(n.Node.Pointers)
            THEN [pageID |-> 0, entryIndex |-> 0, err |-> "panic"]
            ELSE With([parts \in {Split(n.Node.Pointers[i + 1], ":")} |->
                IF Len(parts) < 2 THEN [pageID |-> 0, entryIndex |-> 0, err |-> "panic"]
                ELSE [pageID |-> ParseUint(parts[1]), entryIndex |-> ParseUint(parts[2]),
                      err |-> "nil"]])])])

\* BPlusTree.Delete with foundIndex starting at 0 instead of -1: a key that
\* is not found takes the first entry away
BPlusTreeDelete_FoundIndexZero(h, root, seed, key) ==
    With([n \in {readNode(h, root)} |->
        IF n.err # "nil" THEN [err |-> n.err, h |-> h]
        ELSE IF ~n.Node.IsLeaf THEN [err |-> "NonLeafRoot", h |-> h]
        ELSE With([foundIndex \in {Max({0, FirstIndexOf(n.Node.Keys, key)})} |->
            IF foundIndex + 1 > Len(n.Node.Pointers) THEN [err |-> "panic", h |-> h]
            ELSE writeNode(h, [n.Node EXCEPT !.Keys = RemoveAt(@, foundIndex),
                                             !.Pointers = RemoveAt(@, foundIndex)], seed)])])

\* BPlusTree.Delete
BPlusTreeDelete(h, root, seed, key) ==
    With([n \in {readNode(h, root)} |->
        IF n.err # "nil" THEN [err |-> n.err, h |-> h]
        ELSE IF ~n.Node.IsLeaf THEN [err |-> "NonLeafRoot", h |-> h]
        ELSE With([foundIndex \in {FirstIndexOf(n.Node.Keys, key)} |->
            IF foundIndex = -1 THEN [err |-> "KeyNotFound", h |-> h]
            ELSE IF foundIndex + 1 > Len(n.Node.Pointers) THEN [err |-> "panic", h |-> h]
            ELSE writeNode(h, [n.Node EXCEPT !.Keys = RemoveAt(@, foundIndex),
                                             !.Pointers = RemoveAt(@, foundIndex)], seed)])])

-----------------------------------------------------------------------------
(* Database: the facade                                                    *)

\* OpenDatabase on a path whose file exists with this text
OpenDatabase(content, seed) == NewBPlusTree(NewTextFileHandler(content), seed)

\* Database.Insert that allocates the data page before it looks the id up
DatabaseInsert_AllocatesFirst(h, root, seed, ID, Data) ==
    With([a \in {AllocatePage(h)} |->
        With([f \in {BPlusTreeFind(a.h, root, ID)} |->
            IF f.err = "panic" THEN [err |-> "panic", h |-> a.h]
            ELSE IF f.pageID # 0 THEN [err |-> "AlreadyExists", h |-> a.h]
            ELSE With([r \in {AddRecord([a.Page EXCEPT !.Header.PageType = "Data"],
                                        <<ID, Data>>)} |->
                     IF r.err # "nil" THEN [err |-> r.err, h |-> a.h]
                     ELSE With([w \in {WritePage(a.h, r.Page, seed)} |->
                         IF w.err # "nil" THEN [err |-> w.err, h |-> w.h]
                         ELSE BPlusTreeInsert(w.h, root, seed, ID, r.Page.Header.PageID,
                                              r.EntryIndex)])])])])

\* Database.Insert
DatabaseInsert(h, root, seed, ID, Data) ==
    With([f \in {BPlusTreeFind(h, root, ID)} |->
        IF f.err = "panic" THEN [err |-> "panic", h |-> h]
        ELSE IF f.pageID # 0 THEN [err |-> "AlreadyExists", h |-> h]
        ELSE With([a \in {AllocatePage(h)} |->
             With([r \in {AddRecord([a.Page EXCEPT !.Header.PageType = "Data"],
                                    <<ID, Data>>)} |->
                 IF r.err # "nil" THEN [err |-> r.err, h |-> a.h]
                 ELSE With([w \in {WritePage(a.h, r.Page, seed)} |->
                     IF w.err # "nil" THEN [err |-> w.err, h |-> w.h]
                     ELSE BPlusTreeInsert(w.h, root, seed, ID, r.Page.Header.PageID,
                                          r.EntryIndex)])])])])

\* Database.Get: Fields is <<>> when the record returned is nil
DatabaseGet(h, root, ID) ==
    With([f \in {BPlusTreeFind(h, root, ID)} |->
        IF f.err # "nil" THEN [err |-> f.err, Fields |-> <<>>]
        ELSE IF f.pageID = 0 THEN [err |-> "nil", Fields |-> <<>>]
        ELSE With([p \in {ReadPage(h, f.pageID)} |->
            IF p.err # "nil" THEN [err |-> p.err, Fields |-> <<>>]
            ELSE GetRecord(p.Page, f.entryIndex)])])

\* Database.Delete without step 5: the record is taken out of its page and
\* the key stays in the index
DatabaseDelete_KeepsKey(h, root, seed, ID) ==
    With([f \in {BPlusTreeFind(h, root, ID)} |->
        IF f.err # "nil" THEN [err |-> f.err, h |-> h]
        ELSE IF f.pageID = 0 THEN [err |-> "RecordNotFound", h |-> h]
        ELSE With([p \in {ReadPage(h, f.pageID)} |->
            IF p.err # "nil" THEN [err |-> p.err, h |-> h]
            ELSE With([d \in {DeleteRecord(p.Page, f.entryIndex)} |->
                IF d.err # "nil" THEN [err |-> d.err, h |-> h]
                ELSE WritePage(h, d.Page, seed)])])])

\* Database.Delete
DatabaseDelete(h, root, seed, ID) ==
    With([f \in {BPlusTreeFind(h, root, ID)} |->
        IF f.err # "nil" THEN [err |-> f.err, h |-> h]
        ELSE IF f.pageID = 0 THEN [err |-> "RecordNotFound", h |-> h]
        ELSE With([p \in {ReadPage(h, f.pageID)} |->
            IF p.err # "nil" THEN [err |-> p.err, h |-> h]
            ELSE With([d \in {DeleteRecord(p.Page, f.entryIndex)} |->
                IF d.err # "nil" THEN [err |-> d.err, h |-> h]
                ELSE With([w \in {WritePage(h, d.Page, seed)} |->
                    IF w.err # "nil" THEN [err |-> w.err, h |-> w.h]
                    ELSE BPlusTreeDelete(w.h, root, seed, ID)])])])])

\* Database.Update
DatabaseUpdate(h, root, seed, ID, NewData) ==
    With([f \in {BPlusTreeFind(h, root, ID)} |->
        IF f.err # "nil" THEN [err |-> f.err, h |-> h]
        ELSE IF f.pageID = 0 THEN [err |-> "RecordNotFound", h |-> h]
        ELSE With([p \in {ReadPage(h, f.pageID)} |->
            IF p.err # "nil" THEN [err |-> p.err, h |-> h]
            ELSE With([OldRecord \in {GetRecord(p.Page, f.entryIndex)} |->
                IF OldRecord.err # "nil" THEN [err |-> OldRecord.err, h |-> h]
                ELSE IF Len(OldRecord.Fields) < 2 THEN [err |-> "panic", h |-> h]
                ELSE WritePage(h, [p.Page EXCEPT !.Data =
                                      MapSet(@, "Entry-" \o FormatUint(f.entryIndex),
                                             Join([OldRecord.Fields EXCEPT ![2] = NewData],
                                                  "|"))],
                               seed)])])])

-----------------------------------------------------------------------------
(* Inputs and history                                                      *)

ScenarioA == <<"a", "b", "c", "d", "e">>   \* keys given to the index, by first use
DbIds == <<"c", "a", "d", "b">>            \* ids given to the facade, by first use
Keys == {"a", "b", "c", "d", "e"}
Datas == {"X", "Y"}                        \* record data given to the facade
WriteIDs == {1, 2, 10}                     \* pages the store-level caller writes
ReadIDs == {0, 1, 2, 10, 11}               \* pages the store-level caller reads

\* pages the store-level caller writes: header fields and payload
StorePages ==
    { [PageLSN |-> 0, PageType |-> "", Data |-> <<>>],
      [PageLSN |-> 0, PageType |-> "Index",
       Data |-> << <<"IsLeaf", "true">>, <<"Keys", "">>, <<"Pointers", "">> >>],
      [PageLSN |-> 7, PageType |-> "Data",
       Data |-> << <<"EntryIndex", "1">>, <<"Entry-1", "a|X">> >>],
      [PageLSN |-> 0, PageType |-> "Data",
       Data |-> << <<"EntryIndex", "1">>, <<"Entry-1", "b|Y ">> >>] }

NoData == "<none>"
NoPointer == <<0, 0>>

\* the goroutines that call into one Database or one TextFileHandler
Goroutines == {1, 2}

\* a sync.RWMutex: the goroutine holding it for writing (0: none) and the
\* goroutines holding it for reading
Unlocked == [writer |-> 0, readers |-> {}]

NoCall == [op |-> "", ID |-> "", Data |-> ""]
NoLocals == [buf |-> "", tmp |-> 0, pageID |-> 0, entryIndex |-> 0, err |-> "nil", Fields |-> <<>>]

\* no goroutine is in a call and both locks are free
Idle ==
    /\ gpc = [g \in Goroutines |-> "idle"]
    /\ gcall = [g \in Goroutines |-> NoCall]
    /\ gloc = [g \in Goroutines |-> NoLocals]
    /\ DbMutex = Unlocked
    /\ FhMutex = Unlocked
    /\ Offset = 0

\* a call record: which call, its arguments and what it returned
Call(op) ==
    [op |-> op, id |-> 0, key |-> "", data |-> "", ptr |-> NoPointer,
     err |-> "nil", Page |-> NoPage, rec |-> <<>>]

\* nothing has been called yet
History ==
    /\ held = {}
    /\ ins = [k \in Keys |-> [data |-> NoData, live |-> FALSE]]
    /\ atClose = [k \in Keys |-> <<>>]
    /\ idx = [k \in Keys |-> NoPointer]
    /\ dup = FALSE
    /\ scen = 0
    /\ used = 0
    /\ nops = 0
    /\ Idle
    /\ page = NoPage
    /\ added = <<>>
    /\ got = NoResult

\* the keys a call may be given: those used before and the next new one
Callable == {cfg.keys[i] : i \in 1..(IF used < Len(cfg.keys) THEN used + 1 ELSE used)}

\* the count of used keys once key has been passed to a call
UsedWith(key) ==
    IF used < Len(cfg.keys) /\ key = cfg.keys[used + 1] THEN used + 1 ELSE used

-----------------------------------------------------------------------------
(* Store level: a caller using one TextFileHandler on a fresh file         *)

\* the handler as it is now
H == Handler(File, PageCount, DeallocatedPages, Closed)

\* the handler becomes h
SetHandler(h) ==
    /\ File' = h.File
    /\ PageCount' = h.PageCount
    /\ DeallocatedPages' = h.DeallocatedPages
    /\ Closed' = h.Closed

\* NewTextFileHandler on a path that does not exist
InitStore ==
    /\ \E h \in {NewTextFileHandler(InitialContent)} :
         /\ File = h.File
         /\ PageCount = h.PageCount
         /\ DeallocatedPages = h.DeallocatedPages
         /\ Closed = h.Closed
    /\ RootPageID = 0
    /\ mapSeed \in 0..MaxSeed
    /\ last = Call("NewTextFileHandler")
    /\ cfg = [keys |-> <<>>, datas |-> {}, calls |-> MaxStoreOps]
    /\ History

StoreAllocatePage ==
    /\ PageCount < MaxPages
    /\ \E a \in {AllocatePage(H)} :
         /\ SetHandler(a.h)
         /\ held' = held \cup {a.Page.Header.PageID}
         /\ last' = [Call("AllocatePage") EXCEPT !.id = a.Page.Header.PageID,
                                                !.Page = a.Page]
    /\ UNCHANGED <<RootPageID, mapSeed, ins, atClose, idx, dup, scen, used, nops, cfg, concVars, pageVars>>

StoreWritePage ==
    /\ nops < cfg.calls
    /\ \E id \in held \cap WriteIDs, p \in StorePages :
         LET Page == [Header |-> [PageLSN |-> p.PageLSN, PageID |-> id,
                                  PageType |-> p.PageType],
                      Data |-> p.Data]
         IN  \E w \in {WritePage(H, Page, mapSeed)} :
                 /\ SetHandler(w.h)
                 /\ last' = [Call("WritePage") EXCEPT !.id = id, !.Page = Page,
                                                      !.err = w.err]
    /\ nops' = nops + 1
    /\ UNCHANGED <<RootPageID, mapSeed, held, ins, atClose, idx, dup, scen, used, cfg, concVars, pageVars>>

StoreReadPage ==
    /\ nops < cfg.calls
    /\ \E id \in ReadIDs :
         \E r \in {ReadPage(H, id)} :
             last' = [Call("ReadPage") EXCEPT !.id = id, !.Page = r.Page, !.err = r.err]
    /\ nops' = nops + 1
    /\ UNCHANGED <<File, PageCount, DeallocatedPages, Closed, RootPageID, mapSeed,
                   held, ins, atClose, idx, dup, scen, used, cfg, concVars, pageVars>>

NextStore == StoreAllocatePage \/ StoreWritePage \/ StoreReadPage

SpecStore == InitStore /\ [][NextStore]_vars

-----------------------------------------------------------------------------
(* Index and facade level: a Database opened on a fresh file               *)

\* OpenDatabase on a path that does not exist
Opened ==
    /\ mapSeed \in 0..MaxSeed
    /\ \E o \in {OpenDatabase(InitialContent, mapSeed)} :
         /\ File = o.h.File
         /\ PageCount = o.h.PageCount
         /\ DeallocatedPages = o.h.DeallocatedPages
         /\ Closed = o.h.Closed
         /\ RootPageID = o.RootPageID
         /\ last = [Call("OpenDatabase") EXCEPT !.err = o.err]
    /\ History

\* Scenario A goes one step further when the next key of a,b,c,d,e is
\* inserted with success, and is left for good by any other change
ScenarioStep(key, err) ==
    IF scen >= 0 /\ scen < Len(ScenarioA) /\ key = ScenarioA[scen + 1] /\ err = "nil"
    THEN scen + 1 ELSE -1

\* db.Index.Insert(key, pageID, entryIndex): the pointer is to the first
\* record of a page of its own, as the facade's pointers are
IndexInsert ==
    /\ nops < cfg.calls
    /\ ~Closed
    /\ \E key \in Callable :
         \E ptr \in {<<nops + 2, 1>>} :
         \E r \in {BPlusTreeInsert(H, RootPageID, mapSeed, key, ptr[1], ptr[2])} :
             /\ SetHandler(r.h)
             /\ last' = [Call("Index.Insert") EXCEPT !.key = key, !.ptr = ptr, !.err = r.err]
             /\ idx' = IF r.err = "nil" THEN [idx EXCEPT ![key] = ptr] ELSE idx
             /\ dup' = (dup \/ idx[key] # NoPointer)
             /\ scen' = ScenarioStep(key, r.err)
             /\ used' = UsedWith(key)
    /\ nops' = nops + 1
    /\ UNCHANGED <<RootPageID, mapSeed, held, ins, atClose, cfg, concVars, pageVars>>

\* db.Index.Delete(key)
IndexDelete ==
    /\ nops < cfg.calls
    /\ ~Closed
    /\ \E key \in Callable :
         \E r \in {BPlusTreeDelete(H, RootPageID, mapSeed, key)} :
             /\ SetHandler(r.h)
             /\ last' = [Call("Index.Delete") EXCEPT !.key = key, !.err = r.err]
             /\ idx' = IF r.err = "nil" THEN [idx EXCEPT ![key] = NoPointer] ELSE idx
             /\ used' = UsedWith(key)
    /\ scen' = -1
    /\ nops' = nops + 1
    /\ UNCHANGED <<RootPageID, mapSeed, held, ins, atClose, dup, cfg, concVars, pageVars>>

\* db.Index.Find(key)
IndexFind ==
    /\ nops < cfg.calls
    /\ ~Closed
    /\ \E key \in Callable :
         \E f \in {BPlusTreeFind(H, RootPageID, key)} :
             /\ last' = [Call("Index.Find") EXCEPT !.key = key, !.err = f.err,
                                                   !.ptr = <<f.pageID, f.entryIndex>>]
             /\ used' = UsedWith(key)
    /\ nops' = nops + 1
    /\ UNCHANGED <<File, PageCount, DeallocatedPages, Closed, RootPageID, mapSeed,
                   held, ins, atClose, idx, dup, scen, cfg, concVars, pageVars>>

NextIndex == IndexInsert \/ IndexDelete \/ IndexFind

InitIndex == Opened /\ cfg = [keys |-> ScenarioA, datas |-> {}, calls |-> MaxIndexOps]

SpecIndex == InitIndex /\ [][NextIndex]_vars

\* db.Insert(id, data)
DbInsert ==
    /\ nops < cfg.calls
    /\ ~Closed
    /\ \E id \in Callable, data \in cfg.datas :
         \E r \in {DatabaseInsert(H, RootPageID, mapSeed, id, data)} :
             /\ SetHandler(r.h)
             /\ last' = [Call("Insert") EXCEPT !.key = id, !.data = data, !.err = r.err]
             /\ ins' = IF r.err = "nil"
                       THEN [ins EXCEPT ![id] = [data |-> data, live |-> TRUE]]
                       ELSE ins
             /\ used' = UsedWith(id)
    /\ nops' = nops + 1
    /\ UNCHANGED <<RootPageID, mapSeed, held, atClose, idx, dup, scen, cfg, concVars, pageVars>>

\* db.Get(id)
DbGet ==
    /\ nops < cfg.calls
    /\ ~Closed
    /\ \E id \in Callable :
         \E r \in {DatabaseGet(H, RootPageID, id)} :
             /\ last' = [Call("Get") EXCEPT !.key = id, !.err = r.err, !.rec = r.Fields]
             /\ used' = UsedWith(id)
    /\ nops' = nops + 1
    /\ UNCHANGED <<File, PageCount, DeallocatedPages, Closed, RootPageID, mapSeed,
                   held, ins, atClose, idx, dup, scen, cfg, concVars, pageVars>>

\* db.Update(id, data)
DbUpdate ==
    /\ nops < cfg.calls
    /\ ~Closed
    /\ \E id \in Callable, data \in cfg.datas :
         \E r \in {DatabaseUpdate(H, RootPageID, mapSeed, id, data)} :
             /\ SetHandler(r.h)
             /\ last' = [Call("Update") EXCEPT !.key = id, !.data = data, !.err = r.err]
             /\ ins' = [ins EXCEPT ![id].data = NoData]
             /\ used' = UsedWith(id)
    /\ nops' = nops + 1
    /\ UNCHANGED <<RootPageID, mapSeed, held, atClose, idx, dup, scen, cfg, concVars, pageVars>>

\* db.Delete(id)
DbDelete ==
    /\ nops < cfg.calls
    /\ ~Closed
    /\ \E id \in Callable :
         \E r \in {DatabaseDelete(H, RootPageID, mapSeed, id)} :
             /\ SetHandler(r.h)
             /\ last' = [Call("Delete") EXCEPT !.key = id, !.err = r.err]
             /\ ins' = [ins EXCEPT ![id] = [data |-> NoData,
                                            live |-> @.live /\ r.err # "nil"]]
             /\ used' = UsedWith(id)
    /\ nops' = nops + 1
    /\ UNCHANGED <<RootPageID, mapSeed, held, atClose, idx, dup, scen, cfg, concVars, pageVars>>

\* db.Close()
DbClose ==
    /\ nops < cfg.calls
    /\ ~Closed
    /\ \E r \in {Close(H)} :
         /\ SetHandler(r.h)
         /\ last' = [Call("Close") EXCEPT !.err = r.err]
    /\ atClose' = [k \in Keys |-> DatabaseGet(H, RootPageID, k).Fields]
    /\ ins' = [k \in Keys |-> [ins[k] EXCEPT !.data = NoData]]
    /\ nops' = nops + 1
    /\ UNCHANGED <<RootPageID, mapSeed, held, idx, dup, scen, used, cfg, concVars, pageVars>>

\* OpenDatabase on the same path once the database has been closed
DbOpen ==
    /\ nops < cfg.calls
    /\ Closed
    /\ \E o \in {OpenDatabase(File, mapSeed)} :
         /\ SetHandler(o.h)
         /\ RootPageID' = o.RootPageID
         /\ last' = [Call("OpenDatabase") EXCEPT !.err = o.err]
    /\ nops' = nops + 1
    /\ UNCHANGED <<mapSeed, held, ins, atClose, idx, dup, scen, used, cfg, concVars, pageVars>>

Next == DbInsert \/ DbGet \/ DbUpdate \/ DbDelete \/ DbClose \/ DbOpen

Init == Opened /\ cfg = [keys |-> DbIds, datas |-> Datas, calls |-> MaxOps]

Spec == Init /\ [][Next]_vars

\* callers that use the facade and its exported Index side by side
NextAll == Next \/ NextIndex

InitAll == Opened /\ cfg = [keys |-> DbIds, datas |-> {"X"}, calls |-> MaxAllOps]

SpecAll == InitAll /\ [][NextAll]_vars

-----------------------------------------------------------------------------
(* What the calls return in a given state                                  *)

\* the handler after the step
HNext == Handler(File', PageCount', DeallocatedPages', Closed')

\* db.Get(id) now
Get(id) == DatabaseGet(H, RootPageID, id)
\* db.Get(id) after the step
GetNext(id) == DatabaseGet(HNext, RootPageID', id)

\* db.Index.Find(key) now, as error and pointer
Find(key) ==
    With([f \in {BPlusTreeFind(H, RootPageID, key)} |->
        [err |-> f.err, ptr |-> <<f.pageID, f.entryIndex>>]])
\* db.Index.Find(key) after the step
FindNext(key) ==
    With([f \in {BPlusTreeFind(HNext, RootPageID', key)} |->
        [err |-> f.err, ptr |-> <<f.pageID, f.entryIndex>>]])

\* the root node now and after the step
Root == readNode(H, RootPageID).Node
RootNext == readNode(HNext, RootPageID').Node

\* key is one of the keys of the index
InIndex(key) == \E i \in 1..Len(Root.Keys) : Root.Keys[i] = key

\* the step is a call of op
Calls(op) == nops' = nops + 1 /\ last'.op = op

-----------------------------------------------------------------------------
(* C1..C7: facade and index                                                *)

\* C1: while the database is open, every id whose last Insert returned no
\* error, and which no Delete or Update was called on since, is returned by
\* Get as the record [id, data], however many ids are stored.
C1_GetAfterInsert ==
    ~Closed =>
        \A id \in Keys :
            ins[id].data # NoData =>
                Get(id) = [err |-> "nil", Fields |-> <<id, ins[id].data>>]

\* C2: OpenDatabase on the file of a closed database leaves the file as it
\* is, keeps the root page, and Get then returns for every id that had a
\* record when Close was called the same record.
C2_ReopenKeepsRecords ==
    [][Calls("OpenDatabase") =>
          /\ File' = File
          /\ \A id \in Keys :
                atClose[id] # <<>> =>
                    GetNext(id) = [err |-> "nil", Fields |-> atClose[id]]]_vars

\* C3: as long as no key was inserted while it was in the index, Find(k)
\* returns the pointer last inserted for k if k was inserted and not deleted
\* since, and the not-found result (0, 0) otherwise.
C3_FindAfterInsertDelete ==
    ~dup => \A k \in Keys : Find(k) = [err |-> "nil", ptr |-> idx[k]]

\* C4: Scenario A. Once a,b,c,d have been inserted in that order into the
\* empty tree the root is an internal node with one separator key and two
\* leaf children, and once e has followed every one of a..e is found with
\* the pointer inserted for it.
C4_ScenarioA ==
    /\ scen >= 4 =>
          /\ ~Root.IsLeaf
          /\ Len(Root.Keys) = 1
          /\ Len(Root.Children) = 2
          /\ \A i \in 1..Len(Root.Children) : readNode(H, Root.Children[i]).Node.IsLeaf
    /\ scen = 5 =>
          \A i \in 1..Len(ScenarioA) :
              Find(ScenarioA[i]) = [err |-> "nil", ptr |-> idx[ScenarioA[i]]]

\* C5: an Insert of an id whose earlier Insert returned no error, and which
\* was not deleted since, returns the already-exists error and leaves what
\* Get(id) returns unchanged.
C5_SecondInsertFails ==
    [][(Calls("Insert") /\ ins[last'.key].live) =>
          /\ last'.err = "AlreadyExists"
          /\ GetNext(last'.key) = Get(last'.key)]_vars

\* C6: BPlusTree.Insert of a key that is in the index returns an error and
\* leaves the keys and pointers of the node as they were.
C6_IndexInsertDuplicate ==
    [][(Calls("Index.Insert") /\ InIndex(last'.key)) =>
          /\ last'.err # "nil"
          /\ RootNext.Keys = Root.Keys
          /\ RootNext.Pointers = Root.Pointers]_vars

\* C7: Scenario D. BPlusTree.Delete and Database.Delete of a key that is
\* not in the index return their not-found error, and every key is found
\* afterwards with the same pointer and the same record as before.
C7_DeleteAbsent ==
    [][((Calls("Index.Delete") \/ Calls("Delete")) /\ ~InIndex(last'.key)) =>
          /\ last'.err = IF last'.op = "Index.Delete" THEN "KeyNotFound"
                                                      ELSE "RecordNotFound"
          /\ \A k \in Keys : FindNext(k) = Find(k) /\ GetNext(k) = Get(k)]_vars

\* a Delete of an absent id has just failed while another id is still found
C7_Witness ==
    /\ last.op = "Delete"
    /\ last.err = "RecordNotFound"
    /\ ~InIndex(last.key)
    /\ \E k \in Keys : Find(k).ptr # NoPointer /\ Get(k).Fields # <<>>

-----------------------------------------------------------------------------
(* C8..C10: the store                                                      *)

\* two results of ReadPage are the same: error, header and payload mapping
SameRead(r1, r2) ==
    /\ r1.err = r2.err
    /\ r1.Page.Header = r2.Page.Header
    /\ MapPairs(r1.Page.Data) = MapPairs(r2.Page.Data)

\* C8: after WritePage(p) of a page whose id came from AllocatePage,
\* ReadPage(p.id) returns p: same PageID, LSN, type and payload mapping.
C8_WriteReadRoundTrip ==
    (last.op = "WritePage" /\ last.err = "nil" /\ last.id \in held) =>
        SameRead(ReadPage(H, last.id),
                 [err |-> "nil", Page |-> last.Page])

\* C9: WritePage(p) leaves what ReadPage(q) returns unchanged for every
\* other page q.
C9_WriteFrame ==
    [][Calls("WritePage") =>
          \A q \in ReadIDs \ {last'.id} :
              SameRead(ReadPage(HNext, q), ReadPage(H, q))]_vars

\* the lines of the first section of the file whose PageID line is exactly
\* that of PageID: from that line up to the next section; <<>> if none
SectionLines(content, PageID) ==
    LET lines == ScanLines(content)
        at == {i \in 1..Len(lines) : lines[i] = "PageID: " \o FormatUint(PageID)}
        first == Min(at)
        ends == {j \in (first + 1)..Len(lines) : HasPrefix(lines[j], PageSection)}
    IN  IF at = {} THEN <<>>
        ELSE SubSeq(lines, first, IF ends = {} THEN Len(lines) ELSE Min(ends) - 1)

\* the page those lines hold
SectionPage(content, PageID) ==
    ReadPageLoop(SectionLines(content, PageID), 1, "PageID: " \o FormatUint(PageID),
                 FALSE, FALSE,
                 [Header |-> [PageLSN |-> 0, PageID |-> PageID, PageType |-> ""],
                  Data |-> <<>>]).Page

\* C10: ReadPage(id) returns an error and no page when id is 0, when id is
\* above the page count and when no section of the file has PageID id; in
\* every other case it returns the page held by the section with PageID id.
C10_ReadPageCases ==
    \A id \in ReadIDs :
        LET r == ReadPage(H, id)
        IN  IF id = 0 \/ id > PageCount \/ SectionLines(File, id) = <<>>
            THEN r.err # "nil" /\ r.Page = NoPage
            ELSE SameRead(r, [err |-> "nil", Page |-> SectionPage(File, id)])

-----------------------------------------------------------------------------
(* C11..C14: the store's bookkeeping                                       *)

\* the PAGES value of the file's header, as LoadMetadata reads it
HeaderPages(content) == LoadMetadata(content).PageCount

\* the ids of the page sections of the file: the numbers of its PageID lines
SectionIDs(content) ==
    LET lines == ScanLines(content)
    IN  {SscanfUint(SliceFrom(lines[i], Len("PageID: ")), 0) :
            i \in {j \in 1..Len(lines) : HasPrefix(lines[j], "PageID: ")}}

\* C11: after a WritePage that returned no error the PAGES value of the
\* file's header equals the handler's PageCount and no page section of the
\* file has an id above it.
C11_PagesHeader ==
    (last.op = "WritePage" /\ last.err = "nil") =>
        /\ HeaderPages(File) = PageCount
        /\ \A id \in SectionIDs(File) : id <= HeaderPages(File)

\* C12, C14: a caller that also closes the handler and opens the file again

\* TextFileHandler.Close
StoreClose ==
    /\ nops < cfg.calls
    /\ \E r \in {Close(H)} :
         /\ SetHandler(r.h)
         /\ last' = [Call("Close") EXCEPT !.err = r.err]
    /\ nops' = nops + 1
    /\ UNCHANGED <<RootPageID, mapSeed, held, ins, atClose, idx, dup, scen, used, cfg, concVars, pageVars>>

\* NewTextFileHandler on the same path once the handler has been closed
StoreReopen ==
    /\ nops < cfg.calls
    /\ Closed
    /\ SetHandler(NewTextFileHandler(File))
    /\ last' = Call("NewTextFileHandler")
    /\ nops' = nops + 1
    /\ UNCHANGED <<RootPageID, mapSeed, held, ins, atClose, idx, dup, scen, used, cfg, concVars, pageVars>>

NextStoreLife == NextStore \/ StoreClose \/ StoreReopen

InitStoreLife ==
    /\ \E h \in {NewTextFileHandler(InitialContent)} :
         /\ File = h.File
         /\ PageCount = h.PageCount
         /\ DeallocatedPages = h.DeallocatedPages
         /\ Closed = h.Closed
    /\ RootPageID = 0
    /\ mapSeed \in 0..MaxSeed
    /\ last = Call("NewTextFileHandler")
    /\ cfg = [keys |-> <<>>, datas |-> {}, calls |-> MaxLifeOps]
    /\ History

SpecStoreLife == InitStoreLife /\ [][NextStoreLife]_vars

\* the step is a call of AllocatePage
CallsAllocatePage ==
    /\ last'.op = "AllocatePage"
    /\ <<PageCount', DeallocatedPages'>> # <<PageCount, DeallocatedPages>>

\* C12: AllocatePage never returns an id it has returned before, in the
\* same session or after the file was closed and opened again (the handler
\* has no operation that frees an id).
C12_NoDoubleAllocation ==
    [][CallsAllocatePage => last'.id \notin held]_vars

\* C13: a handler opened on a file that exists already, with the header of
\* the on-disk format: PAGES and the DEALLOCATED_PAGES list of free ids

\* the free lists of the files opened: none, one id, two ids
FreeLists == {"", "2", "3,2"}

\* a file holding only a header, with count pages and the free list
ExistingFile(count, free) ==
    HeaderSection \o "\nPAGESIZE=" \o FormatUint(DefaultPageSize)
        \o "\nENCODING=UTF-8\nVERSION=1.0\nPAGES=" \o FormatUint(count)
        \o "\nDEALLOCATED_PAGES=" \o free \o "\n\n"

ExistingFiles ==
    {InitialContent} \cup {ExistingFile(3, free) : free \in FreeLists}

\* NewTextFileHandler on a path that exists
InitStoreExisting ==
    /\ \E content \in ExistingFiles :
         \E h \in {NewTextFileHandler(content)} :
             /\ File = h.File
             /\ PageCount = h.PageCount
             /\ DeallocatedPages = h.DeallocatedPages
             /\ Closed = h.Closed
    /\ RootPageID = 0
    /\ mapSeed \in 0..MaxSeed
    /\ last = Call("NewTextFileHandler")
    /\ cfg = [keys |-> <<>>, datas |-> {}, calls |-> MaxStoreOps]
    /\ History

SpecStoreExisting == InitStoreExisting /\ [][NextStore]_vars

\* C13: AllocatePage returns the head of the free list and removes it when
\* the list is not empty, else PageCount + 1 with PageCount raised by one;
\* the id is positive, the page has no payload and no type, and the file is
\* left as it was.
C13_AllocatePage ==
    [][CallsAllocatePage =>
          /\ IF Len(DeallocatedPages) > 0
             THEN /\ last'.id = Head(DeallocatedPages)
                  /\ DeallocatedPages' = Tail(DeallocatedPages)
                  /\ PageCount' = PageCount
             ELSE /\ last'.id = PageCount + 1
                  /\ PageCount' = PageCount + 1
                  /\ DeallocatedPages' = DeallocatedPages
          /\ last'.id > 0
          /\ last'.Page.Header.PageID = last'.id
          /\ last'.Page.Data = <<>>
          /\ last'.Page.Header.PageType = ""
          /\ File' = File]_vars

\* the step is a call of ReadPage, WritePage or AllocatePage
CallsPageOp ==
    \/ CallsAllocatePage
    \/ last'.op \in {"ReadPage", "WritePage"} /\ nops' = nops + 1

\* C14: once the handler is closed, ReadPage, WritePage and AllocatePage
\* return an error and leave PageCount, the free list and the file as they
\* were.
C14_ClosedRejects ==
    [][(Closed /\ CallsPageOp) =>
          /\ last'.err # "nil"
          /\ UNCHANGED <<File, PageCount, DeallocatedPages>>]_vars

-----------------------------------------------------------------------------
(* C17, C18: the shape of the index                                        *)

\* the keys met on the walk along the leaves: it starts at the leftmost leaf,
\* which is the root while the root is a leaf, and goes on through NextLeaf,
\* which readNode leaves at 0
LeafWalk == Root.Keys

\* the keys whose last Insert has not been followed by a Delete
LiveKeys == {k \in Keys : idx[k] # NoPointer}

\* C17: after any sequence of index Inserts the tree is balanced: the root
\* is a leaf and has no children, so every leaf is at the same depth and no
\* node but the root exists that could hold fewer than ceil(Order/2)-1
\* keys, and the root holds at most Order-1 = 3 keys.
C17_Balanced ==
    \A root \in {Root} :
        /\ root.IsLeaf
        /\ Len(root.Children) = 0
        /\ Len(root.Keys) <= BTreeOrder - 1
        /\ Len(root.Pointers) = Len(root.Keys)

\* an Insert of a new key has been called on a root that holds Order-1 keys
C17_Witness ==
    /\ last.op = "Index.Insert"
    /\ last.err = "nil"
    /\ ~InIndex(last.key)
    /\ Len(Root.Keys) = BTreeOrder - 1

\* C18: after any sequence of index Insert and Delete calls the walk along
\* the leaves meets the keys in strictly ascending order, meets every key
\* that was inserted and not deleted and no other key, and ends at a leaf
\* whose NextLeaf is 0.
C18_LeafChain ==
    /\ \A i \in 1..(Len(LeafWalk) - 1) : StrLess(LeafWalk[i], LeafWalk[i + 1])
    /\ {LeafWalk[i] : i \in 1..Len(LeafWalk)} = LiveKeys
    /\ Root.NextLeaf = 0

-----------------------------------------------------------------------------
(* Goroutines calling one Database                                         *)

\* sync.RWMutex: RLock goes through while no goroutine holds the lock for
\* writing, Lock while no goroutine holds it at all
CanRLock(m) == m.writer = 0
\* a Lock that does not wait for the goroutines holding the lock for reading
CanLock_IgnoringReaders(m) == m.writer = 0
CanLock(m) == m.writer = 0 /\ m.readers = {}

\* steps 1 to 4 of Database.Insert: up to the write of the data page; ret
\* tells that Insert has returned
InsertData(h, root, seed, ID, Data) ==
    With([f \in {BPlusTreeFind(h, root, ID)} |->
        IF f.err = "panic"
        THEN [ret |-> TRUE, err |-> "panic", h |-> h, pageID |-> 0, entryIndex |-> 0]
        ELSE IF f.pageID # 0
        THEN [ret |-> TRUE, err |-> "AlreadyExists", h |-> h, pageID |-> 0, entryIndex |-> 0]
        ELSE With([a \in {AllocatePage(h)} |->
             With([r \in {AddRecord([a.Page EXCEPT !.Header.PageType = "Data"],
                                    <<ID, Data>>)} |->
                 IF r.err # "nil"
                 THEN [ret |-> TRUE, err |-> r.err, h |-> a.h, pageID |-> 0, entryIndex |-> 0]
                 ELSE With([w \in {WritePage(a.h, r.Page, seed)} |->
                     [ret |-> w.err # "nil", err |-> w.err, h |-> w.h,
                      pageID |-> r.Page.Header.PageID, entryIndex |-> r.EntryIndex]])])])])

\* steps 1 to 4 of Database.Delete: up to the write of the data page
DeleteData(h, root, seed, ID) ==
    With([f \in {BPlusTreeFind(h, root, ID)} |->
        IF f.err # "nil" THEN [ret |-> TRUE, err |-> f.err, h |-> h]
        ELSE IF f.pageID = 0 THEN [ret |-> TRUE, err |-> "RecordNotFound", h |-> h]
        ELSE With([p \in {ReadPage(h, f.pageID)} |->
            IF p.err # "nil" THEN [ret |-> TRUE, err |-> p.err, h |-> h]
            ELSE With([d \in {DeleteRecord(p.Page, f.entryIndex)} |->
                IF d.err # "nil" THEN [ret |-> TRUE, err |-> d.err, h |-> h]
                ELSE With([w \in {WritePage(h, d.Page, seed)} |->
                    [ret |-> w.err # "nil", err |-> w.err, h |-> w.h]])])])])

\* the calls of the goroutines: Insert, Delete, Update, Get and Close
ConcOps == {"Insert", "Delete", "Update", "Get", "Close"}

\* where a call starts: the facade's lock or, for Close, the handler's method
FirstPc(op) ==
    IF op = "Get" THEN "RLock" ELSE IF op = "Close" THEN "Close" ELSE "Lock"

\* a goroutine calls a method of the Database
GoCall(g) ==
    /\ gpc[g] = "idle"
    /\ nops < cfg.calls
    /\ \E op \in ConcOps, id \in Callable, data \in cfg.datas :
         /\ gcall' = [gcall EXCEPT ![g] = [op |-> op,
                                           ID |-> IF op = "Close" THEN "" ELSE id,
                                           Data |-> IF op \in {"Insert", "Update"}
                                                    THEN data ELSE ""]]
         /\ gpc' = [gpc EXCEPT ![g] = FirstPc(op)]
         /\ used' = IF op = "Close" THEN used ELSE UsedWith(id)
    /\ gloc' = [gloc EXCEPT ![g] = NoLocals]
    /\ nops' = nops + 1
    /\ UNCHANGED <<File, PageCount, DeallocatedPages, Closed, RootPageID, mapSeed, last,
                   held, ins, atClose, idx, dup, scen, cfg, DbMutex, FhMutex, Offset, pageVars>>

\* db.Mutex.Lock() of Insert, Delete and Update
GoLock(g) ==
    /\ gpc[g] = "Lock"
    /\ CanLock(DbMutex)
    /\ DbMutex' = [DbMutex EXCEPT !.writer = g]
    /\ gpc' = [gpc EXCEPT ![g] = IF gcall[g].op = "Insert" THEN "InsertData"
                                 ELSE IF gcall[g].op = "Delete" THEN "DeleteData"
                                 ELSE "Update"]
    /\ UNCHANGED <<File, PageCount, DeallocatedPages, Closed, RootPageID, mapSeed, last,
                   held, ins, atClose, idx, dup, scen, used, nops, cfg,
                   gcall, gloc, FhMutex, Offset, pageVars>>

\* db.Mutex.RLock() of Get
GoRLock(g) ==
    /\ gpc[g] = "RLock"
    /\ CanRLock(DbMutex)
    /\ DbMutex' = [DbMutex EXCEPT !.readers = @ \cup {g}]
    /\ gpc' = [gpc EXCEPT ![g] = "FindSeek"]
    /\ UNCHANGED <<File, PageCount, DeallocatedPages, Closed, RootPageID, mapSeed, last,
                   held, ins, atClose, idx, dup, scen, used, nops, cfg,
                   gcall, gloc, FhMutex, Offset, pageVars>>

\* Database.Insert up to the write of the data page; the handler's methods
\* take the handler's lock and give it back before they return
GoInsertData(g) ==
    /\ gpc[g] = "InsertData"
    /\ CanLock(FhMutex)
    /\ \E r \in {InsertData(H, RootPageID, mapSeed, gcall[g].ID, gcall[g].Data)} :
         /\ SetHandler(r.h)
         /\ gloc' = [gloc EXCEPT ![g].err = r.err, ![g].pageID = r.pageID,
                                 ![g].entryIndex = r.entryIndex]
         /\ gpc' = [gpc EXCEPT ![g] = IF r.ret THEN "Unlock" ELSE "InsertIndex"]
    /\ UNCHANGED <<RootPageID, mapSeed, last, held, ins, atClose, idx, dup, scen, used,
                   nops, cfg, gcall, DbMutex, FhMutex, Offset, pageVars>>

\* step 5 of Database.Insert: db.Index.Insert
GoInsertIndex(g) ==
    /\ gpc[g] = "InsertIndex"
    /\ CanLock(FhMutex)
    /\ \E r \in {BPlusTreeInsert(H, RootPageID, mapSeed, gcall[g].ID, gloc[g].pageID,
                                 gloc[g].entryIndex)} :
         /\ SetHandler(r.h)
         /\ gloc' = [gloc EXCEPT ![g].err = r.err]
    /\ gpc' = [gpc EXCEPT ![g] = "Unlock"]
    /\ UNCHANGED <<RootPageID, mapSeed, last, held, ins, atClose, idx, dup, scen, used,
                   nops, cfg, gcall, DbMutex, FhMutex, Offset, pageVars>>

\* Database.Delete up to the write of the data page
GoDeleteData(g) ==
    /\ gpc[g] = "DeleteData"
    /\ CanLock(FhMutex)
    /\ \E r \in {DeleteData(H, RootPageID, mapSeed, gcall[g].ID)} :
         /\ SetHandler(r.h)
         /\ gloc' = [gloc EXCEPT ![g].err = r.err]
         /\ gpc' = [gpc EXCEPT ![g] = IF r.ret THEN "Unlock" ELSE "DeleteIndex"]
    /\ UNCHANGED <<RootPageID, mapSeed, last, held, ins, atClose, idx, dup, scen, used,
                   nops, cfg, gcall, DbMutex, FhMutex, Offset, pageVars>>

\* step 5 of Database.Delete: db.Index.Delete
GoDeleteIndex(g) ==
    /\ gpc[g] = "DeleteIndex"
    /\ CanLock(FhMutex)
    /\ \E r \in {BPlusTreeDelete(H, RootPageID, mapSeed, gcall[g].ID)} :
         /\ SetHandler(r.h)
         /\ gloc' = [gloc EXCEPT ![g].err = r.err]
    /\ gpc' = [gpc EXCEPT ![g] = "Unlock"]
    /\ UNCHANGED <<RootPageID, mapSeed, last, held, ins, atClose, idx, dup, scen, used,
                   nops, cfg, gcall, DbMutex, FhMutex, Offset, pageVars>>

\* the body of Database.Update
GoUpdate(g) ==
    /\ gpc[g] = "Update"
    /\ CanLock(FhMutex)
    /\ \E r \in {DatabaseUpdate(H, RootPageID, mapSeed, gcall[g].ID, gcall[g].Data)} :
         /\ SetHandler(r.h)
         /\ gloc' = [gloc EXCEPT ![g].err = r.err]
    /\ gpc' = [gpc EXCEPT ![g] = "Unlock"]
    /\ UNCHANGED <<RootPageID, mapSeed, last, held, ins, atClose, idx, dup, scen, used,
                   nops, cfg, gcall, DbMutex, FhMutex, Offset, pageVars>>

\* what the call of g has returned
Returned(g) ==
    [Call(gcall[g].op) EXCEPT !.key = gcall[g].ID, !.data = gcall[g].Data,
                              !.err = gloc[g].err, !.rec = gloc[g].Fields]

\* the deferred db.Mutex.Unlock() and the return of Insert, Delete, Update
GoUnlock(g) ==
    /\ gpc[g] = "Unlock"
    /\ DbMutex' = [DbMutex EXCEPT !.writer = 0]
    /\ gpc' = [gpc EXCEPT ![g] = "idle"]
    /\ last' = Returned(g)
    /\ UNCHANGED <<File, PageCount, DeallocatedPages, Closed, RootPageID, mapSeed,
                   held, ins, atClose, idx, dup, scen, used, nops, cfg,
                   gcall, gloc, FhMutex, Offset, pageVars>>

\* the size of the buffer a bufio.Scanner reads into at first
ScannerBufSize == 4096

\* the page a ReadPage of Get is after: the root for db.Index.Find, then the
\* data page
ReadTarget(g) == IF gpc[g] \in {"FindSeek", "FindRead"} THEN RootPageID ELSE gloc[g].pageID

\* ReadPage of Get up to the Seek: the handler's lock is taken for reading,
\* the PageID is tested and the shared file is rewound (a Seek on a closed
\* file fails and its error is dropped)
GoReadSeek(g) ==
    /\ gpc[g] \in {"FindSeek", "GetSeek"}
    /\ CanRLock(FhMutex)
    /\ IF ReadTarget(g) = 0 \/ ReadTarget(g) > PageCount
       THEN /\ gloc' = [gloc EXCEPT ![g].err = "InvalidPageID"]
            /\ gpc' = [gpc EXCEPT ![g] = "RUnlock"]
            /\ UNCHANGED <<FhMutex, Offset>>
       ELSE /\ FhMutex' = [FhMutex EXCEPT !.readers = @ \cup {g}]
            /\ Offset' = IF Closed THEN Offset ELSE 0
            /\ gloc' = [gloc EXCEPT ![g].buf = ""]
            /\ gpc' = [gpc EXCEPT ![g] = IF gpc[g] = "FindSeek" THEN "FindRead"
                                                                ELSE "GetRead"]
    /\ UNCHANGED <<File, PageCount, DeallocatedPages, Closed, RootPageID, mapSeed, last,
                   held, ins, atClose, idx, dup, scen, used, nops, cfg, gcall, DbMutex, pageVars>>

\* what a Read of the shared file returns at the position it is at
Chunk ==
    IF Closed \/ Offset >= Len(File) THEN ""
    ELSE Slice(File, Offset, Min({Offset + ScannerBufSize, Len(File)}))

\* what Get does with the root page once the Scanner has read buf:
\* db.Index.Find and the tests of its results
AfterFind(g) ==
    With([f \in {BPlusTreeFind(Handler(gloc[g].buf, PageCount, DeallocatedPages, Closed),
                               RootPageID, gcall[g].ID)} |->
        IF f.err # "nil" \/ f.pageID = 0
        THEN [pc |-> "RUnlock", loc |-> [gloc[g] EXCEPT !.err = f.err]]
        ELSE [pc |-> "GetSeek",
              loc |-> [gloc[g] EXCEPT !.pageID = f.pageID, !.entryIndex = f.entryIndex]]])

\* what Get does with the data page once the Scanner has read buf:
\* the end of ReadPage and DataPage.GetRecord
AfterRead(g) ==
    With([p \in {ReadPage(Handler(gloc[g].buf, PageCount, DeallocatedPages, Closed),
                          gloc[g].pageID)} |->
        IF p.err # "nil" THEN [pc |-> "RUnlock", loc |-> [gloc[g] EXCEPT !.err = p.err]]
        ELSE With([r \in {GetRecord(p.Page, gloc[g].entryIndex)} |->
                 [pc |-> "RUnlock",
                  loc |-> [gloc[g] EXCEPT !.err = r.err, !.Fields = r.Fields]]])])

\* one Read of the Scanner of ReadPage: the bytes from the file's position on
\* are added to what the Scanner holds and the position moves behind them;
\* when no bytes come, the Scanner is at its end, ReadPage goes through the
\* lines it has, gives the handler's lock back and the caller goes on
GoRead(g) ==
    /\ gpc[g] \in {"FindRead", "GetRead"}
    /\ IF Chunk # ""
       THEN /\ gloc' = [gloc EXCEPT ![g].buf = @ \o Chunk]
            /\ Offset' = Offset + Len(Chunk)
            /\ UNCHANGED <<gpc, FhMutex>>
       ELSE /\ \E a \in {IF gpc[g] = "FindRead" THEN AfterFind(g) ELSE AfterRead(g)} :
                 /\ gloc' = [gloc EXCEPT ![g] = a.loc]
                 /\ gpc' = [gpc EXCEPT ![g] = a.pc]
            /\ FhMutex' = [FhMutex EXCEPT !.readers = @ \ {g}]
            /\ UNCHANGED Offset
    /\ UNCHANGED <<File, PageCount, DeallocatedPages, Closed, RootPageID, mapSeed, last,
                   held, ins, atClose, idx, dup, scen, used, nops, cfg, gcall, DbMutex, pageVars>>

\* the deferred db.Mutex.RUnlock() and the return of Get
GoRUnlock(g) ==
    /\ gpc[g] = "RUnlock"
    /\ DbMutex' = [DbMutex EXCEPT !.readers = @ \ {g}]
    /\ gpc' = [gpc EXCEPT ![g] = "idle"]
    /\ last' = Returned(g)
    /\ UNCHANGED <<File, PageCount, DeallocatedPages, Closed, RootPageID, mapSeed,
                   held, ins, atClose, idx, dup, scen, used, nops, cfg,
                   gcall, gloc, FhMutex, Offset, pageVars>>

\* Database.Close: TextFileHandler.Close under the handler's lock; the
\* facade's lock is not taken
GoClose(g) ==
    /\ gpc[g] = "Close"
    /\ CanLock(FhMutex)
    /\ \E r \in {Close(H)} :
         /\ SetHandler(r.h)
         /\ gloc' = [gloc EXCEPT ![g].err = r.err]
         /\ last' = [Call("Close") EXCEPT !.err = r.err]
    /\ gpc' = [gpc EXCEPT ![g] = "idle"]
    /\ UNCHANGED <<RootPageID, mapSeed, held, ins, atClose, idx, dup, scen, used,
                   nops, cfg, gcall, DbMutex, FhMutex, Offset, pageVars>>

NextConc ==
    \E g \in Goroutines :
        \/ GoCall(g)
        \/ GoLock(g)
        \/ GoRLock(g)
        \/ GoInsertData(g)
        \/ GoInsertIndex(g)
        \/ GoDeleteData(g)
        \/ GoDeleteIndex(g)
        \/ GoUpdate(g)
        \/ GoUnlock(g)
        \/ GoReadSeek(g)
        \/ GoRead(g)
        \/ GoRUnlock(g)
        \/ GoClose(g)

InitConc == Opened /\ cfg = [keys |-> <<"a", "b">>, datas |-> {"X"}, calls |-> MaxConcOps]

SpecConc == InitConc /\ [][NextConc]_vars

-----------------------------------------------------------------------------
(* C15, C19, C20: goroutines calling one Database                          *)

\* g is between taking the facade's lock and giving it back
InCritical(g) ==
    gpc[g] \in {"InsertData", "InsertIndex", "DeleteData", "DeleteIndex", "Update",
                "Unlock", "FindSeek", "FindRead", "GetSeek", "GetRead", "RUnlock"}

\* C15: while an Insert, Delete or Update is between taking and giving back
\* the facade's lock, no other Insert, Delete, Update or Get is: only Gets
\* are there together.
C15_FacadeExclusion ==
    \A g, k \in Goroutines :
        (g # k /\ InCritical(g) /\ InCritical(k)) =>
            (gcall[g].op = "Get" /\ gcall[k].op = "Get")

\* an Insert has written its data page and holds the facade's lock while
\* a Get waits for it
C15_Witness ==
    \E g, k \in Goroutines :
        /\ gpc[g] = "InsertIndex"
        /\ gpc[k] = "RLock"
        /\ gcall[k].op = "Get"

\* C19: a Get that runs while other Gets run returns what it returns when
\* it runs alone on the same file.
C19_ConcurrentGet ==
    \A g \in Goroutines :
        (gpc[g] = "RUnlock" /\ ~Closed) =>
            /\ gloc[g].err = Get(gcall[g].ID).err
            /\ gloc[g].Fields = Get(gcall[g].ID).Fields

\* C20: Close does not take effect while an Insert, Delete, Update or Get
\* is between taking and giving back the facade's lock.
C20_CloseSerialised ==
    [][(Closed' /\ ~Closed) => \A g \in Goroutines : ~InCritical(g)]_vars

-----------------------------------------------------------------------------
(* C16: goroutines calling AllocatePage of one TextFileHandler, of the     *)
(* handler in use or of the older handler                                  *)

\* the older handler: the text its NewTextFileHandler writes into a file it
\* creates, and the handler it returns for it (PageCount starts at 1)
OldInitialContent ==
    HeaderSection \o "\nPAGESIZE=" \o FormatUint(DefaultPageSize)
        \o "\nENCODING=UTF-8\nVERSION=1.0\nPAGES=1\n\n"
OldNewTextFileHandler == Handler(OldInitialContent, 1, <<>>, FALSE)

\* the file as the older AllocatePage rewrites it when PageCount is count:
\* the first "PAGES=<count-1>" becomes "PAGES=<count>"
OldPagesUpdate(content, count) ==
    ReplaceFirst(content, "PAGES=" \o FormatUint(count - 1), "PAGES=" \o FormatUint(count))

\* a goroutine calls AllocatePage
GoAllocCall(g) ==
    /\ gpc[g] = "idle"
    /\ nops < cfg.calls
    /\ gcall' = [gcall EXCEPT ![g] = [NoCall EXCEPT !.op = "AllocatePage"]]
    /\ gloc' = [gloc EXCEPT ![g] = NoLocals]
    /\ gpc' = [gpc EXCEPT ![g] = IF cfg.old THEN "OldLock" ELSE "AllocLock"]
    /\ nops' = nops + 1
    /\ UNCHANGED <<File, PageCount, DeallocatedPages, Closed, RootPageID, mapSeed, last,
                   held, ins, atClose, idx, dup, scen, used, cfg, DbMutex, FhMutex, Offset, pageVars>>

\* the handler in use: self.Mutex.Lock()
GoAllocLock(g) ==
    /\ gpc[g] = "AllocLock"
    /\ CanLock(FhMutex)
    /\ FhMutex' = [FhMutex EXCEPT !.writer = g]
    /\ gpc' = [gpc EXCEPT ![g] = "AllocBody"]
    /\ UNCHANGED <<File, PageCount, DeallocatedPages, Closed, RootPageID, mapSeed, last,
                   held, ins, atClose, idx, dup, scen, used, nops, cfg,
                   gcall, gloc, DbMutex, Offset, pageVars>>

\* the handler in use: the body of AllocatePage, the deferred Unlock and the
\* return
GoAllocBody(g) ==
    /\ gpc[g] = "AllocBody"
    /\ \E a \in {AllocatePage(H)} :
         /\ SetHandler(a.h)
         /\ gloc' = [gloc EXCEPT ![g].pageID = a.Page.Header.PageID]
         /\ held' = held \cup {a.Page.Header.PageID}
         /\ last' = [Call("AllocatePage") EXCEPT !.id = a.Page.Header.PageID,
                                                !.Page = a.Page]
    /\ FhMutex' = [FhMutex EXCEPT !.writer = 0]
    /\ gpc' = [gpc EXCEPT ![g] = "idle"]
    /\ UNCHANGED <<RootPageID, mapSeed, ins, atClose, idx, dup, scen, used, nops, cfg,
                   gcall, DbMutex, Offset, pageVars>>

\* the older handler: self.Mutext.Lock() and, as the next statement,
\* self.Mutext.Unlock(); the lock is free again when the body starts
GoOldLock(g) ==
    /\ gpc[g] = "OldLock"
    /\ CanLock(FhMutex)
    /\ gpc' = [gpc EXCEPT ![g] = "OldTest"]
    /\ UNCHANGED <<File, PageCount, DeallocatedPages, Closed, RootPageID, mapSeed, last,
                   held, ins, atClose, idx, dup, scen, used, nops, cfg,
                   gcall, gloc, DbMutex, FhMutex, Offset, pageVars>>

\* the older handler: a deallocated page is taken and returned if there is
\* one; else self.PageCount++ begins with the read of PageCount
GoOldTest(g) ==
    /\ gpc[g] = "OldTest"
    /\ IF Len(DeallocatedPages) > 0
       THEN /\ DeallocatedPages' = Tail(DeallocatedPages)
            /\ gloc' = [gloc EXCEPT ![g].pageID = Head(DeallocatedPages)]
            /\ held' = held \cup {Head(DeallocatedPages)}
            /\ last' = [Call("AllocatePage") EXCEPT !.id = Head(DeallocatedPages)]
            /\ gpc' = [gpc EXCEPT ![g] = "idle"]
       ELSE /\ gloc' = [gloc EXCEPT ![g].tmp = PageCount]
            /\ gpc' = [gpc EXCEPT ![g] = "OldStore"]
            /\ UNCHANGED <<DeallocatedPages, held, last>>
    /\ UNCHANGED <<File, PageCount, Closed, RootPageID, mapSeed, ins, atClose, idx, dup,
                   scen, used, nops, cfg, gcall, DbMutex, FhMutex, Offset, pageVars>>

\* the older handler: self.PageCount++ ends with the write of PageCount
GoOldStore(g) ==
    /\ gpc[g] = "OldStore"
    /\ PageCount' = gloc[g].tmp + 1
    /\ gpc' = [gpc EXCEPT ![g] = "OldFile"]
    /\ UNCHANGED <<File, DeallocatedPages, Closed, RootPageID, mapSeed, last, held, ins,
                   atClose, idx, dup, scen, used, nops, cfg, gcall, gloc, DbMutex,
                   FhMutex, Offset, pageVars>>

\* the older handler: the file is read, its PAGES line is replaced with the
\* PageCount of the moment and the file is written back
GoOldFile(g) ==
    /\ gpc[g] = "OldFile"
    /\ File' = OldPagesUpdate(File, PageCount)
    /\ gpc' = [gpc EXCEPT ![g] = "OldReturn"]
    /\ UNCHANGED <<PageCount, DeallocatedPages, Closed, RootPageID, mapSeed, last, held,
                   ins, atClose, idx, dup, scen, used, nops, cfg, gcall, gloc, DbMutex,
                   FhMutex, Offset, pageVars>>

\* the older handler: return self.PageCount, nil
GoOldReturn(g) ==
    /\ gpc[g] = "OldReturn"
    /\ gloc' = [gloc EXCEPT ![g].pageID = PageCount]
    /\ held' = held \cup {PageCount}
    /\ last' = [Call("AllocatePage") EXCEPT !.id = PageCount]
    /\ gpc' = [gpc EXCEPT ![g] = "idle"]
    /\ UNCHANGED <<File, PageCount, DeallocatedPages, Closed, RootPageID, mapSeed, ins,
                   atClose, idx, dup, scen, used, nops, cfg, gcall, DbMutex, FhMutex,
                   Offset, pageVars>>

NextAllocate ==
    \E g \in Goroutines :
        \/ GoAllocCall(g)
        \/ GoAllocLock(g)
        \/ GoAllocBody(g)
        \/ GoOldLock(g)
        \/ GoOldTest(g)
        \/ GoOldStore(g)
        \/ GoOldFile(g)
        \/ GoOldReturn(g)

\* a handler on a new file, of the handler in use or of the older one
InitAllocate ==
    /\ \E old \in BOOLEAN :
         /\ cfg = [keys |-> <<>>, datas |-> {}, calls |-> MaxAllocCalls, old |-> old]
         /\ \E h \in {IF old THEN OldNewTextFileHandler
                             ELSE NewTextFileHandler(InitialContent)} :
              /\ File = h.File
              /\ PageCount = h.PageCount
              /\ DeallocatedPages = h.DeallocatedPages
              /\ Closed = h.Closed
    /\ RootPageID = 0
    /\ mapSeed = 0
    /\ last = Call("NewTextFileHandler")
    /\ History

SpecAllocate == InitAllocate /\ [][NextAllocate]_vars

\* the PageCount of the handler when it was opened
FirstPageCount == IF cfg.old THEN OldNewTextFileHandler.PageCount ELSE 0

\* C16: with either handler, once all the AllocatePage calls of the
\* goroutines have returned, the ids they returned are all different and
\* PageCount has gone up by one for each call.
C16_ConcurrentAllocate ==
    (\A g \in Goroutines : gpc[g] = "idle") =>
        /\ Cardinality(held) = nops
        /\ PageCount = FirstPageCount + nops

-----------------------------------------------------------------------------
(* C21..C24: the facade's records and the index                            *)

\* record data that ends with a space
SpacedDatas == {"X", "Y "}

\* callers of the facade in short sessions
InitFacade == Opened /\ cfg = [keys |-> DbIds, datas |-> SpacedDatas, calls |-> MaxFacadeOps]

SpecFacade == InitFacade /\ [][Next]_vars

\* C21: in an open session, after every facade call, each key of the index
\* has a pointer (p, e) such that ReadPage(p) returns a page without error,
\* the page has type Data and its entry e is a record whose first field is
\* the key.
C21_IndexPointsAtRecords ==
    ~Closed =>
        \A root \in {Root} :
            \A i \in 1..Len(root.Keys) :
                \A f \in {Find(root.Keys[i])} :
                    /\ f.err = "nil"
                    /\ \A p \in {ReadPage(H, f.ptr[1])} :
                         /\ p.err = "nil"
                         /\ p.Page.Header.PageType = "Data"
                         /\ \A r \in {GetRecord(p.Page, f.ptr[2])} :
                              /\ r.err = "nil"
                              /\ Len(r.Fields) >= 1
                              /\ r.Fields[1] = root.Keys[i]

\* a Delete has just taken one record away while another key stays in the
\* index
C21_Witness ==
    /\ last.op = "Delete"
    /\ last.err = "nil"
    /\ Len(Root.Keys) >= 1

\* the records stored in the file: the pairs (p, e) such that the section
\* of page p has type Data and holds an entry with local index e
StoredRecords(content) ==
    UNION { With([Page \in {SectionPage(content, p)} |->
                IF Page.Header.PageType # "Data" THEN {}
                ELSE {<<p, SscanfUint(SliceFrom(k, Len("Entry-")), 0)>> :
                         k \in {x \in MapKeys(Page.Data) : HasPrefix(x, "Entry-")}}])
            : p \in SectionIDs(content) }

\* the pointers of the keys of the index, one per position of the root
IndexPointers ==
    With([root \in {Root} |->
        [i \in 1..Len(root.Pointers) |->
            With([parts \in {Split(root.Pointers[i], ":")} |->
                <<ParseUint(parts[1]), IF Len(parts) < 2 THEN 0 ELSE ParseUint(parts[2])>>])]])

\* C22: in an open session, after every facade call, each record stored in
\* a Data page section of the file is the pointer of exactly one key of the
\* index: a call leaves no data page behind that no key refers to.
C22_NoOrphans ==
    ~Closed =>
        \A ptrs \in {IndexPointers} :
            \A rec \in StoredRecords(File) :
                Cardinality({i \in 1..Len(ptrs) : ptrs[i] = rec}) = 1

\* Get(id) returns a record
Present(id) == \A g \in {Get(id)} : g.err = "nil" /\ g.Fields # <<>>

\* C23: Update(id, newData) on an id that Get finds returns no error and
\* changes only that record: afterwards Get(id) returns the fields
\* <<id, newData>>, Get of every other id returns what it returned before,
\* and the keys and pointers of the root and the page count are unchanged.
C23_UpdateFrame ==
    [][(Calls("Update") /\ Present(last'.key)) =>
          /\ last'.err = "nil"
          /\ GetNext(last'.key) = [err |-> "nil", Fields |-> <<last'.key, last'.data>>]
          /\ \A k \in Keys \ {last'.key} : GetNext(k) = Get(k)
          /\ RootNext.Keys = Root.Keys
          /\ RootNext.Pointers = Root.Pointers
          /\ PageCount' = PageCount]_vars

\* the step is a facade call whose precondition fails: an Insert of an id
\* that Find locates, a Delete or an Update of an id that Find does not
\* locate
CallsRefused ==
    \A f \in {Find(last'.key)} :
        \/ Calls("Insert") /\ f.ptr[1] # 0
        \/ (Calls("Delete") \/ Calls("Update")) /\ f.err = "nil" /\ f.ptr[1] = 0

\* C24: a facade call whose precondition fails returns an error and leaves
\* the file, the page count and the free list as they were.
C24_RefusedCallFrame ==
    [][CallsRefused =>
          /\ last'.err # "nil"
          /\ File' = File
          /\ PageCount' = PageCount
          /\ DeallocatedPages' = DeallocatedPages]_vars

\* an Insert of an id that is there has just been refused
C24_Witness ==
    /\ last.op = "Insert"
    /\ last.err = "AlreadyExists"
    /\ Present(last.key)

-----------------------------------------------------------------------------
(* C25: the index node as persisted                                        *)

\* C25: as long as no key that is in the index has been inserted again,
\* after every index Insert and Delete the Keys of the persisted node, the
\* root, are strictly ascending, Pointers is as long as Keys, and
\* Pointers[i] is the pointer given to Insert together with Keys[i].
C25_NodeOrdered ==
    ~dup =>
        \A root \in {Root}, ptrs \in {IndexPointers} :
            /\ \A i \in 1..(Len(root.Keys) - 1) : StrLess(root.Keys[i], root.Keys[i + 1])
            /\ Len(root.Pointers) = Len(root.Keys)
            /\ \A i \in 1..Len(root.Keys) : ptrs[i] = idx[root.Keys[i]]

\* a key has just been inserted in front of a key that was there, each
\* key having been inserted once while absent
C25_Witness ==
    /\ ~dup
    /\ last.op = "Index.Insert"
    /\ last.err = "nil"
    /\ \A root \in {Root} : Len(root.Keys) >= 2 /\ root.Keys[1] = last.key

-----------------------------------------------------------------------------
(* C26: the sections of the file                                           *)

\* the number of sections of the file whose PageID line is that of PageID
SectionCount(content, PageID) ==
    With([lines \in {ScanLines(content)} |->
        Cardinality({i \in 1..Len(lines) : lines[i] = "PageID: " \o FormatUint(PageID)})])

\* a caller that allocates and writes pages
NextStoreWrites == StoreAllocatePage \/ StoreWritePage

InitStoreWrites ==
    /\ \E h \in {NewTextFileHandler(InitialContent)} :
         /\ File = h.File
         /\ PageCount = h.PageCount
         /\ DeallocatedPages = h.DeallocatedPages
         /\ Closed = h.Closed
    /\ RootPageID = 0
    /\ mapSeed \in 0..MaxSeed
    /\ last = Call("NewTextFileHandler")
    /\ cfg = [keys |-> <<>>, datas |-> {}, calls |-> MaxWriteOps]
    /\ History

SpecStoreWrites == InitStoreWrites /\ [][NextStoreWrites]_vars

\* C26: after any sequence of AllocatePage and WritePage calls the file
\* holds at most one section per PageID, and every "# PAGE" line opens the
\* section of one PageID.
C26_OneSectionPerPage ==
    \A lines \in {ScanLines(File)} :
        /\ \A id \in SectionIDs(File) : SectionCount(File, id) = 1
        /\ \A i \in 1..Len(lines) :
              HasPrefix(lines[i], PageSection) =>
                  i < Len(lines) /\ HasPrefix(lines[i + 1], "PageID: ")

\* three pages have been written and the file holds two sections: the last
\* WritePage has replaced the first of them
C26_Witness ==
    /\ last.op = "WritePage"
    /\ last.err = "nil"
    /\ nops = 3
    /\ SectionIDs(File) = {1, 2}
    /\ last.id = 1
    /\ SectionPage(File, 1).Header = last.Page.Header

-----------------------------------------------------------------------------
(* C27: the record methods of storage/Page.go                              *)

\* the Fields the caller passes to AddRecord
RecordFields == {<<"a", "X">>, <<"b", "Y">>, <<"c">>}

\* the caller takes a page from the store and sets its type
CallNewPage ==
    /\ page = NoPage
    /\ \E a \in {AllocatePage(H)}, PageType \in {"Data", "Index"} :
         /\ SetHandler(a.h)
         /\ page' = [a.Page EXCEPT !.Header.PageType = PageType]
         /\ last' = [Call("AllocatePage") EXCEPT !.id = a.Page.Header.PageID,
                                                !.Page = a.Page]
    /\ UNCHANGED <<RootPageID, mapSeed, held, ins, atClose, idx, dup, scen, used, nops,
                   cfg, concVars, added, got>>

CallAddRecord ==
    /\ page # NoPage
    /\ Len(added) < MaxRecords
    /\ \E Fields \in RecordFields :
         \E r \in {PageAddRecord(page, Fields)} :
             /\ page' = r.Page
             /\ added' = IF r.err = "nil" THEN Append(added, Fields) ELSE added
             /\ got' = Result("AddRecord", r.err, <<>>)
    /\ UNCHANGED <<File, PageCount, DeallocatedPages, Closed, RootPageID, mapSeed, last,
                   held, ins, atClose, idx, dup, scen, used, nops, cfg, concVars>>

CallGetRecord ==
    /\ page # NoPage
    /\ \E EntryIndex \in 0..(Len(added) + 1) :
         got' = PageGetRecord(page, EntryIndex)
    /\ UNCHANGED <<File, PageCount, DeallocatedPages, Closed, RootPageID, mapSeed, last,
                   held, ins, atClose, idx, dup, scen, used, nops, cfg, concVars,
                   page, added>>

CallGetAllRecords ==
    /\ page # NoPage
    /\ got' = PageGetAllRecords(page)
    /\ UNCHANGED <<File, PageCount, DeallocatedPages, Closed, RootPageID, mapSeed, last,
                   held, ins, atClose, idx, dup, scen, used, nops, cfg, concVars,
                   page, added>>

NextPage == CallNewPage \/ CallAddRecord \/ CallGetRecord \/ CallGetAllRecords

InitPage ==
    /\ \E h \in {NewTextFileHandler(InitialContent)} :
         /\ File = h.File
         /\ PageCount = h.PageCount
         /\ DeallocatedPages = h.DeallocatedPages
         /\ Closed = h.Closed
    /\ RootPageID = 0
    /\ mapSeed \in 0..MaxSeed
    /\ last = Call("NewTextFileHandler")
    /\ cfg = [keys |-> <<>>, datas |-> {}, calls |-> MaxRecords]
    /\ History

SpecPage == InitPage /\ [][NextPage]_vars

\* C27: on a Data page that has taken k >= 1 AddRecord calls, GetAllRecords
\* returns exactly k records, with local indexes 1..k in order, each holding
\* the Fields of its AddRecord call: the records GetRecord(1)..GetRecord(k)
\* return.
C27_GetAllRecords ==
    (got.op = "GetAllRecords" /\ page.Header.PageType = "Data" /\ Len(added) >= 1) =>
        /\ got.err = "nil"
        /\ Len(got.Records) = Len(added)
        /\ \A i \in 1..Len(added) :
              /\ got.Records[i] = [EntryIndex |-> i, Fields |-> added[i]]
              /\ PageGetRecord(page, i) = Result("GetRecord", "nil", <<got.Records[i]>>)

====
